---- MODULE Spec2Model ----
(***************************************************************************)
(* State-machine model of the custom-JWT authentication routes             *)
(* (signup, login, logout, session, refresh) and of the public lead        *)
(* intake of the real-estate backend.                                      *)
(*                                                                         *)
(* Strings the code inspects character by character (passwords, names,     *)
(* referral codes) are sequences of one-character strings.  Time is the    *)
(* clock in whole seconds, the resolution of the iat/exp claims of a JWT.  *)
(***************************************************************************)
EXTENDS Integers, Sequences, FiniteSets, TLC

\* ------------------------------------------------------------------ bounds
\* Number of times the clock advances in a run.
MaxTicks == 2
\* Number of Session rows storage may hold at once.
MaxSessions == 2
\* Number of Lead rows storage may hold.
MaxLeads == 2
\* The longest full name the referral-code specification draws.
MaxNameLen == 3
\* Number of FollowUp rows storage may hold.
MaxFollowUps == 2
\* Number of Activity rows storage may hold.
MaxActivities == 2

\* -------------------------------------------------------- program constants
\* ACCESS_TOKEN_EXPIRY = '15m', in seconds.
ACCESS_TOKEN_EXPIRY == 900
\* REFRESH_TOKEN_EXPIRY = '7d', in seconds.
REFRESH_TOKEN_EXPIRY == 604800
\* Session.expiresAt = Date.now() + 7 * 24 * 60 * 60 * 1000, in seconds.
SESSION_LIFETIME == 604800
\* signupSchema: password min(8).max(128); validatePasswordStrength the same.
PASSWORD_MIN == 8
PASSWORD_MAX == 128
\* signupSchema: fullName min(2).
FULLNAME_MIN == 2
\* The referral-code loop: while (attempts < 5).
MAX_ATTEMPTS == 5
\* generateReferralCode: .slice(0, 3).
MAX_INITIALS == 3

JWT_SECRET == "fallback-secret-change-in-production"

\* ------------------------------------------------------------- characters
LowerCase == <<"a","b","c","d","e","f","g","h","i","j","k","l","m",
               "n","o","p","q","r","s","t","u","v","w","x","y","z">>
UpperCase == <<"A","B","C","D","E","F","G","H","I","J","K","L","M",
               "N","O","P","Q","R","S","T","U","V","W","X","Y","Z">>
DigitChars == <<"0","1","2","3","4","5","6","7","8","9">>

Range(s) == {s[i] : i \in DOMAIN s}

\* String.prototype.toUpperCase, one character at a time.
CharToUpper(ch) ==
    IF \E i \in DOMAIN LowerCase : LowerCase[i] = ch
    THEN UpperCase[CHOOSE i \in DOMAIN LowerCase : LowerCase[i] = ch]
    ELSE ch

toUpperCase(s) == [i \in DOMAIN s |-> CharToUpper(s[i])]

\* Number.prototype.toString for a non-negative integer.
RECURSIVE toString(_)
toString(n) ==
    IF n < 10 THEN <<DigitChars[n + 1]>>
    ELSE toString(n \div 10) \o <<DigitChars[(n % 10) + 1]>>

\* String.prototype.split(' '): the words between single spaces (empty
\* words included).
RECURSIVE split(_)
split(s) ==
    IF \A i \in DOMAIN s : s[i] # " " THEN <<s>>
    ELSE LET k == CHOOSE i \in DOMAIN s :
                     s[i] = " " /\ \A j \in 1..(i - 1) : s[j] # " "
         IN  <<SubSeq(s, 1, k - 1)>> \o split(SubSeq(s, k + 1, Len(s)))

\* word.charAt(0): the empty string for an empty word.
charAt0(w) == IF Len(w) = 0 THEN <<>> ELSE <<w[1]>>

RECURSIVE join(_)
join(ws) == IF Len(ws) = 0 THEN <<>> ELSE Head(ws) \o join(Tail(ws))

slice(s, n) == SubSeq(s, 1, IF Len(s) < n THEN Len(s) ELSE n)

\* -------------------------------------------------------------- sentinels
\* SQL NULL / JS null for a string column.
NULL == <<"NULL">>
\* An optional body field that is absent (undefined).
ABSENT == <<"ABSENT">>
NoId == 0
NoTime == -1

\* ------------------------------------------------- lib/password.ts
\* bcrypt.hash: a salted one-way digest, never the plaintext itself.
hashPassword(password) == <<"$2a$12$">> \o password

\* bcrypt.compare.
verifyPassword(password, hash) == hash = hashPassword(password)

hasUpperCase(password) == \E i \in DOMAIN password : password[i] \in Range(UpperCase)
hasLowerCase(password) == \E i \in DOMAIN password : password[i] \in Range(LowerCase)
hasNumber(password) == \E i \in DOMAIN password : password[i] \in Range(DigitChars)

validatePasswordStrength_NoUpperCheck(password) ==
    IF Len(password) < PASSWORD_MIN
    THEN [valid |-> FALSE, message |-> "Password must be at least 8 characters"]
    ELSE IF Len(password) > PASSWORD_MAX
    THEN [valid |-> FALSE, message |-> "Password must not exceed 128 characters"]
    ELSE IF ~hasLowerCase(password) \/ ~hasNumber(password)
    THEN [valid |-> FALSE, message |-> "Password must contain at least one uppercase letter, one lowercase letter, and one number"]
    ELSE [valid |-> TRUE, message |-> ""]

validatePasswordStrength(password) ==
    IF Len(password) < PASSWORD_MIN
    THEN [valid |-> FALSE, message |-> "Password must be at least 8 characters"]
    ELSE IF Len(password) > PASSWORD_MAX
    THEN [valid |-> FALSE, message |-> "Password must not exceed 128 characters"]
    ELSE IF ~hasUpperCase(password) \/ ~hasLowerCase(password) \/ ~hasNumber(password)
    THEN [valid |-> FALSE, message |-> "Password must contain at least one uppercase letter, one lowercase letter, and one number"]
    ELSE [valid |-> TRUE, message |-> ""]

\* ------------------------------------------------------ lib/jwt.ts
\* jwt.sign(payload, secret, {expiresIn}): the payload with iat and exp,
\* signed.  HS256 is deterministic: equal payload, iat and exp give the
\* equal token.
sign(payload, secret, expiresIn, t) ==
    [userId |-> payload.userId, email |-> payload.email, role |-> payload.role,
     iat |-> t, exp |-> t + expiresIn, sig |-> secret]

generateAccessToken(payload, t) == sign(payload, JWT_SECRET, ACCESS_TOKEN_EXPIRY, t)

generateRefreshToken(payload, t) == sign(payload, JWT_SECRET, REFRESH_TOKEN_EXPIRY, t)

\* getCookie(...) of a cookie the request does not carry.
NoToken == [userId |-> NoId, email |-> "", role |-> "", iat |-> 0, exp |-> 0, sig |-> ""]
\* A token whose signature does not verify under JWT_SECRET.
ForgedToken == [userId |-> 1, email |-> "alice@example.com", role |-> "admin",
                iat |-> 0, exp |-> REFRESH_TOKEN_EXPIRY, sig |-> "another-secret"]

verify_AcceptsAtExpiry(token, secret, t) == token.sig = secret /\ t <= token.exp

\* jwt.verify(token, secret): the signature matches and the clock has not
\* reached exp (jsonwebtoken rejects once clockTimestamp >= exp).
verify(token, secret, t) == token.sig = secret /\ t < token.exp

\* The two verifiers are the same code: same secret, no token-type check.
verifyAccessToken(token, t) == verify(token, JWT_SECRET, t)

verifyRefreshToken_IgnoresExpiry(token, t) == token.sig = JWT_SECRET

verifyRefreshToken(token, t) == verify(token, JWT_SECRET, t)

\* ------------------------------------------------ lib/referralCode.ts
\* crypto.randomInt(100000, 999999) returns an integer of
\* 100000..999998; the model draws it from these two, so that two
\* generated codes can collide and can differ.
RandomInts == {100000, 100001}

Initials(fullName) ==
    slice(join([i \in DOMAIN split(fullName) |->
                    toUpperCase(charAt0(split(fullName)[i]))]), MAX_INITIALS)

\* generateReferralCode(fullName) for the random number n.
generateReferralCode(fullName, n) == Initials(fullName) \o toString(n)

\* ------------------------------------------------------------ inputs
Emails == {"alice@example.com", "bob@example.com"}

Alice123 == <<"A","l","i","c","e","1","2","3">>
WrongPassword == <<"W","r","o","n","g","P","a","s","s","w","o","r","d","9">>
weak == <<"w","e","a","k">>
Valid123 == <<"V","a","l","i","d","1","2","3">>
alllowercase1 == <<"a","l","l","l","o","w","e","r","c","a","s","e","1">>
ALLUPPERCASE1 == <<"A","L","L","U","P","P","E","R","C","A","S","E","1">>
NoDigitsHere == <<"N","o","D","i","g","i","t","s","H","e","r","e">>
\* A password of 129 characters with an uppercase letter, a lowercase
\* letter and a digit.
TooLong == [i \in 1..(PASSWORD_MAX + 1) |-> IF i = 1 THEN "A" ELSE IF i = 2 THEN "a" ELSE "1"]

SignupPasswords == {Alice123, weak, alllowercase1, ALLUPPERCASE1, NoDigitsHere, TooLong}
LoginPasswords == {Alice123, WrongPassword}

JohnDoe == <<"J","o","h","n"," ","D","o","e">>
FullNames == {JohnDoe}

\* body.role: absent, or one of the UserRole values.
NoRole == "undefined"
CHANNEL_PARTNER == "channel_partner"
UserRoles == {"admin", "builder", CHANNEL_PARTNER, "customer"}
SignupRoles == {NoRole, CHANNEL_PARTNER, "admin"}

\* Requests in flight at once (each runs the signup handler).
Procs == {"r1", "r2"}

\* ------------------------------------------------------------- state
VARIABLES
    now,              \* the clock: floor(Date.now() / 1000)
    ticks,            \* how many times the clock has advanced
    users,            \* table users, in insertion order; id = position
    channelPartners,  \* table of Agent records; id = position
    sessions,         \* table sessions (token unique)
    leads,            \* table leads; id = position
    pending,          \* per request slot: the signup in flight
    jar,              \* every token a response handed to a client
    last,             \* the last request completed and its response
    followUps,        \* table follow_ups; id = position
    activities        \* table activities, in insertion order

vars == <<now, ticks, users, channelPartners, sessions, leads, pending, jar, last,
          followUps, activities>>

Idle == [pc |-> "idle", email |-> "", password |-> <<>>, fullName |-> <<>>,
         role |-> NoRole, passwordHash |-> <<>>, referralCode |-> NULL,
         userId |-> NoId]

\* ------------------------------------------------------------ cookies
\* The handlers read process.env.NODE_ENV on every request; a response
\* records, for each deployment mode (isProduction), the cookies it would
\* set and the cookies it would clear there.
ACCESS_COOKIE_MAX_AGE == 900
REFRESH_COOKIE_MAX_AGE == 604800

NoCookies == [isProduction \in BOOLEAN |-> {}]

\* setCookie(c, name, value, {httpOnly, secure, sameSite, maxAge, path})
CookieOptions(name, isProduction) ==
    [name |-> name, httpOnly |-> TRUE, secure |-> isProduction,
     sameSite |-> IF isProduction THEN "None" ELSE "Lax",
     maxAge |-> IF name = "accessToken" THEN ACCESS_COOKIE_MAX_AGE
                ELSE REFRESH_COOKIE_MAX_AGE,
     path |-> "/"]

SetCookies(names) ==
    [isProduction \in BOOLEAN |-> {CookieOptions(n, isProduction) : n \in names}]

\* The clearing with the attributes of the development mode in every mode.
DeleteCookieOptions_DevOnly(name, isProduction) ==
    [name |-> name, path |-> "/", secure |-> FALSE, sameSite |-> "Lax"]

\* deleteCookie(c, name, {path, secure, sameSite})
DeleteCookieOptions(name, isProduction) ==
    [name |-> name, path |-> "/", secure |-> isProduction,
     sameSite |-> IF isProduction THEN "None" ELSE "Lax"]

DeleteCookies(names) ==
    [isProduction \in BOOLEAN |->
        {DeleteCookieOptions(n, isProduction) : n \in names}]

\* c.json(...): the response, with the request fields the properties read.
Response(op, status, code, message) ==
    [op |-> op, status |-> status, code |-> code, message |-> message,
     userKeys |-> {}, userId |-> NoId, referralCode |-> NULL,
     accessToken |-> NoToken, setAccessToken |-> NoToken,
     setRefreshToken |-> NoToken, cleared |-> {},
     reqEmail |-> "", reqPassword |-> <<>>, reqRole |-> NoRole,
     reqCookie |-> NoToken, reqCode |-> ABSENT, leadId |-> NoId,
     next |-> FALSE, callerId |-> NoId, leadIds |-> <<>>,
     reqRefreshCookie |-> NoToken, reqNewPassword |-> <<>>, outcome |-> "",
     userEmail |-> "", userRole |-> NoRole,
     callerEmail |-> "", callerRole |-> NoRole,
     setCookies |-> NoCookies, deleteCookies |-> NoCookies,
     reqBody |-> <<>>, followUpId |-> NoId]

Init ==
    /\ now = 0
    /\ ticks = 0
    /\ users = <<>>
    /\ channelPartners = <<>>
    /\ sessions = {}
    /\ leads = <<>>
    /\ pending = [p \in Procs |-> Idle]
    /\ jar = {}
    /\ last = Response("none", 0, "", "")
    /\ followUps = <<>>
    /\ activities = <<>>

\* ------------------------------------------------------- storage queries
\* db.select().from(users).where(eq(users.email, email)).limit(1)
UsersByEmail(email) == {i \in DOMAIN users : users[i].email = email}

\* db.select().from(users).where(eq(users.referralCode, code)).limit(1)
UsersByReferralCode(code) == {i \in DOMAIN users : users[i].referralCode = code}

\* db.select().from(sessions).where(eq(sessions.token, token)).limit(1)
SessionsByToken(token) == {s \in sessions : s.token = token}

\* db.select().from(channelPartners).where(eq(channelPartners.userId, id))
ChannelPartnersByUser(id) == {i \in DOMAIN channelPartners : channelPartners[i].userId = id}

UsersUniqueViolation_Off(row) == FALSE

\* The unique constraints of table users: email, and referral_code when it
\* is not NULL.
UsersUniqueViolation(row) ==
    \E i \in DOMAIN users :
        /\ i # row.id
        /\ \/ users[i].email = row.email
           \/ row.referralCode # NULL /\ users[i].referralCode = row.referralCode

\* The unique constraint of sessions.token.
SessionsUniqueViolation(token) == SessionsByToken(token) # {}

\* ------------------------------------------------------- POST /signup
\* zValidator('json', signupSchema): the handler runs only for a body the
\* schema accepts (emails and roles of the model are well formed).
signupSchema(body) ==
    /\ Len(body.password) >= PASSWORD_MIN
    /\ Len(body.password) <= PASSWORD_MAX
    /\ Len(body.fullName) >= FULLNAME_MIN

\* The validator's own 400 response: the zod error, which carries no
\* error.code of the application.
ZodError(op) == Response(op, 400, "ZodError", "Password must be at least 8 characters")

SignupExistingUser_Skipped(email) == FALSE

\* existingUser.length > 0
SignupExistingUser(email) == UsersByEmail(email) # {}

\* The code left by the loop `while (attempts < 5)`, started with `code`
\* after `attempts` regenerations: every code it can end with.
\* `ints` are the numbers crypto.randomInt may return during the request.
ReferralLoop_KeepsFirst(fullName, code, attempts, ints) == {code}

RECURSIVE ReferralLoop(_, _, _, _)
ReferralLoop(fullName, code, attempts, ints) ==
    IF attempts < MAX_ATTEMPTS
    THEN IF UsersByReferralCode(code) = {}
         THEN {code}
         ELSE UNION {ReferralLoop(fullName, generateReferralCode(fullName, n), attempts + 1, ints)
                        : n \in ints}
    ELSE {code}

\* The same loop with its counters: every way it can end, as the code it
\* leaves, the value of `attempts` (regenerations) and the number of
\* db.select lookups it made.
RECURSIVE ReferralLoopRuns(_, _, _, _, _)
ReferralLoopRuns(fullName, code, attempts, lookups, ints) ==
    IF attempts < MAX_ATTEMPTS
    THEN IF UsersByReferralCode(code) = {}
         THEN {[code |-> code, attempts |-> attempts, lookups |-> lookups + 1]}
         ELSE UNION {ReferralLoopRuns(fullName, generateReferralCode(fullName, n),
                                      attempts + 1, lookups + 1, ints) : n \in ints}
    ELSE {[code |-> code, attempts |-> attempts, lookups |-> lookups]}

SignupReferralCodes(body, ints) ==
    IF body.role = CHANNEL_PARTNER \/ body.role = NoRole
    THEN UNION {ReferralLoop(body.fullName, generateReferralCode(body.fullName, n), 0, ints)
                   : n \in ints}
    ELSE {NULL}

ResolvedRole_NoDefault(role) == role

\* body.role || UserRole.CHANNEL_PARTNER
ResolvedRole(role) == IF role = NoRole THEN CHANNEL_PARTNER ELSE role

\* The user object of the signup response (no referralCode key).
SignupUserKeys == {"id", "email", "fullName", "phone", "role", "emailVerified"}

\* The user object of the login and session responses.
LoginUserKeys == SignupUserKeys \cup {"referralCode"}

InFlight == {p \in Procs : pending[p].pc # "idle"}

\* Up to the end of the referral-code loop: validation, strength check,
\* existence check, hash, code generation.
SignupStart(p, body, ints) ==
    /\ pending[p].pc = "idle"
    /\ Cardinality(sessions) + Cardinality(InFlight) < MaxSessions
    /\ LET req == [Response("signup", 0, "", "") EXCEPT
                      !.reqEmail = body.email, !.reqPassword = body.password,
                      !.reqRole = body.role]
           fail(status, code, message) ==
               [req EXCEPT !.status = status, !.code = code, !.message = message]
       IN
       IF ~signupSchema(body)
       THEN /\ last' = fail(400, "ZodError", ZodError("signup").message)
            /\ UNCHANGED pending
       ELSE IF ~validatePasswordStrength(body.password).valid
       THEN /\ last' = fail(400, "WEAK_PASSWORD", validatePasswordStrength(body.password).message)
            /\ UNCHANGED pending
       ELSE IF SignupExistingUser(body.email)
       THEN /\ last' = fail(400, "EMAIL_EXISTS", "An account with this email already exists")
            /\ UNCHANGED pending
       ELSE \E code \in SignupReferralCodes(body, ints) :
            /\ pending' = [pending EXCEPT ![p] =
                   [pc |-> "insertUser", email |-> body.email, password |-> body.password,
                    fullName |-> body.fullName, role |-> body.role,
                    passwordHash |-> hashPassword(body.password),
                    referralCode |-> code, userId |-> NoId]]
            /\ last' = fail(0, "IN_FLIGHT", "")
    /\ UNCHANGED <<now, ticks, users, channelPartners, sessions, leads, jar, followUps, activities>>

\* db.insert(users).values({...}).returning(); a unique violation throws
\* and the catch block answers 500 SIGNUP_ERROR.
SignupInsertUser(p) ==
    /\ pending[p].pc = "insertUser"
    /\ LET b == pending[p]
           row == [id |-> Len(users) + 1, email |-> b.email,
                   passwordHash |-> b.passwordHash, fullName |-> b.fullName,
                   role |-> ResolvedRole(b.role), referralCode |-> b.referralCode,
                   emailVerified |-> FALSE, isActive |-> TRUE, lastLoginAt |-> NoTime]
           req == [Response("signup", 0, "IN_FLIGHT", "") EXCEPT
                      !.reqEmail = b.email, !.reqPassword = b.password, !.reqRole = b.role]
       IN
       IF UsersUniqueViolation(row)
       THEN /\ last' = [req EXCEPT !.status = 500, !.code = "SIGNUP_ERROR",
                                   !.message = "An error occurred during signup"]
            /\ pending' = [pending EXCEPT ![p] = Idle]
            /\ UNCHANGED users
       ELSE /\ users' = Append(users, row)
            /\ pending' = [pending EXCEPT ![p].userId = row.id,
                              ![p].pc = IF ResolvedRole(b.role) = CHANNEL_PARTNER
                                        THEN "insertAgent" ELSE "createSession"]
            /\ last' = req
    /\ UNCHANGED <<now, ticks, channelPartners, sessions, leads, jar, followUps, activities>>

\* db.insert(channelPartners).values({userId, status: 'active', ...})
SignupInsertAgent(p) ==
    /\ pending[p].pc = "insertAgent"
    /\ channelPartners' = Append(channelPartners,
           [id |-> Len(channelPartners) + 1, userId |-> pending[p].userId, status |-> "active"])
    /\ pending' = [pending EXCEPT ![p].pc = "createSession"]
    /\ last' = [Response("signup", 0, "IN_FLIGHT", "") EXCEPT
                   !.reqEmail = pending[p].email, !.reqPassword = pending[p].password,
                   !.reqRole = pending[p].role]
    /\ UNCHANGED <<now, ticks, users, sessions, leads, jar, followUps, activities>>

\* Tokens, the Session row, the two cookies and the 201 response.
SignupFinish(p) ==
    /\ pending[p].pc = "createSession"
    /\ LET newUser == users[pending[p].userId]
           payload == [userId |-> newUser.id, email |-> newUser.email, role |-> newUser.role]
           accessToken == generateAccessToken(payload, now)
           refreshToken == generateRefreshToken(payload, now)
           req == [Response("signup", 0, "", "") EXCEPT
                      !.reqEmail = pending[p].email, !.reqPassword = pending[p].password,
                      !.reqRole = pending[p].role]
       IN
       IF SessionsUniqueViolation(refreshToken)
       THEN /\ last' = [req EXCEPT !.status = 500, !.code = "SIGNUP_ERROR",
                                   !.message = "An error occurred during signup"]
            /\ UNCHANGED <<sessions, jar>>
       ELSE /\ sessions' = sessions \cup
                   {[userId |-> newUser.id, token |-> refreshToken,
                     expiresAt |-> now + SESSION_LIFETIME, createdAt |-> now]}
            /\ jar' = jar \cup {accessToken, refreshToken}
            /\ last' = [req EXCEPT !.status = 201, !.code = "OK",
                           !.message = "Account created successfully!",
                           !.userKeys = SignupUserKeys, !.userId = newUser.id,
                           !.accessToken = accessToken,
                           !.setAccessToken = accessToken,
                           !.setRefreshToken = refreshToken,
                           !.setCookies = SetCookies({"accessToken", "refreshToken"})]
    /\ pending' = [pending EXCEPT ![p] = Idle]
    /\ UNCHANGED <<now, ticks, users, channelPartners, leads, followUps, activities>>

\* -------------------------------------------------------- POST /login
LoginNoUser_Distinct == [status |-> 404, code |-> "USER_NOT_FOUND", message |-> "User not found"]

\* if (!user): the response for an email that matches no user.
LoginNoUser == [status |-> 401, code |-> "INVALID_CREDENTIALS", message |-> "Invalid email or password"]

\* if (!isValidPassword): the response for a wrong password.
LoginBadPassword == [status |-> 401, code |-> "INVALID_CREDENTIALS", message |-> "Invalid email or password"]

\* What a token was issued as: its lifetime tells.
IsAccessToken(t) == t.sig = JWT_SECRET /\ t.exp - t.iat = ACCESS_TOKEN_EXPIRY
IsRefreshToken(t) == t.sig = JWT_SECRET /\ t.exp - t.iat = REFRESH_TOKEN_EXPIRY

\* The cookies a request may carry: nothing, a token that does not verify,
\* or any token a response has handed out.
CookieChoices == jar \cup {NoToken, ForgedToken}

AccountDisabled_Never(user) == FALSE

\* if (!user.isActive)
AccountDisabled(user) == ~user.isActive

Login(email, password) ==
    LET req == [Response("login", 0, "", "") EXCEPT
                   !.reqEmail = email, !.reqPassword = password]
        fail(r) == [req EXCEPT !.status = r.status, !.code = r.code, !.message = r.message]
    IN
    /\ IF UsersByEmail(email) = {}
       THEN /\ last' = fail(LoginNoUser)
            /\ UNCHANGED <<users, sessions, jar>>
       ELSE LET user == users[CHOOSE i \in UsersByEmail(email) : TRUE]
                payload == [userId |-> user.id, email |-> user.email, role |-> user.role]
                accessToken == generateAccessToken(payload, now)
                refreshToken == generateRefreshToken(payload, now)
            IN
            IF ~verifyPassword(password, user.passwordHash)
            THEN /\ last' = fail(LoginBadPassword)
                 /\ UNCHANGED <<users, sessions, jar>>
            ELSE IF AccountDisabled(user)
            THEN /\ last' = fail([status |-> 403, code |-> "ACCOUNT_DISABLED",
                                  message |-> "Your account has been disabled"])
                 /\ UNCHANGED <<users, sessions, jar>>
            ELSE IF SessionsUniqueViolation(refreshToken)
            THEN \* db.insert(sessions) throws; the catch block answers 500
                 /\ last' = fail([status |-> 500, code |-> "LOGIN_ERROR",
                                  message |-> "An error occurred during login"])
                 /\ UNCHANGED <<users, sessions, jar>>
            ELSE /\ Cardinality(sessions) + Cardinality(InFlight) < MaxSessions
                 /\ sessions' = sessions \cup
                        {[userId |-> user.id, token |-> refreshToken,
                          expiresAt |-> now + SESSION_LIFETIME, createdAt |-> now]}
                 /\ users' = [users EXCEPT ![user.id].lastLoginAt = now]
                 /\ jar' = jar \cup {accessToken, refreshToken}
                 /\ last' = [req EXCEPT !.status = 200, !.code = "OK",
                                !.message = "Login successful",
                                !.userKeys = LoginUserKeys, !.userId = user.id,
                                !.referralCode = user.referralCode,
                                !.accessToken = accessToken,
                                !.setAccessToken = accessToken,
                                !.setRefreshToken = refreshToken,
                                !.setCookies = SetCookies({"accessToken", "refreshToken"})]
    /\ UNCHANGED <<now, ticks, channelPartners, leads, pending, followUps, activities>>

\* ------------------------------------------------------- POST /logout
\* The mutation a handler that insists on a cookie would be.
Logout_RequiresCookie(refreshToken) ==
    /\ sessions' = sessions \ SessionsByToken(refreshToken)
    /\ last' = IF refreshToken = NoToken
               THEN [Response("logout", 401, "NO_REFRESH_TOKEN", "Refresh token not found")
                        EXCEPT !.reqCookie = refreshToken]
               ELSE [Response("logout", 200, "OK", "Logged out successfully") EXCEPT
                        !.reqCookie = refreshToken,
                        !.cleared = {"accessToken", "refreshToken"},
                        !.deleteCookies = DeleteCookies({"accessToken", "refreshToken"})]
    /\ UNCHANGED <<now, ticks, users, channelPartners, leads, pending, jar, followUps, activities>>

\* The delete widened to every session of the token's user.
LogoutSessions_AllOfUser(store, refreshToken) ==
    IF refreshToken # NoToken
    THEN {s \in store : s.token # refreshToken /\ s.userId # refreshToken.userId}
    ELSE store

\* if (refreshToken) db.delete(sessions).where(eq(sessions.token, refreshToken)):
\* the table the handler leaves, given the table it finds.
LogoutSessions(store, refreshToken) ==
    IF refreshToken # NoToken
    THEN {s \in store : s.token # refreshToken}
    ELSE store

Logout(refreshToken) ==
    /\ sessions' = LogoutSessions(sessions, refreshToken)
    /\ last' = [Response("logout", 200, "OK", "Logged out successfully") EXCEPT
                   !.reqCookie = refreshToken,
                   !.cleared = {"accessToken", "refreshToken"},
                   !.deleteCookies = DeleteCookies({"accessToken", "refreshToken"})]
    /\ UNCHANGED <<now, ticks, users, channelPartners, leads, pending, jar, followUps, activities>>

\* -------------------------------------------------------- GET /session
\* The response of the handler for the accessToken cookie it reads.
\* The projection built from the claims of the token instead of the row.
SessionUser_FromToken(accessToken) ==
    [email |-> accessToken.email, role |-> accessToken.role]

\* const [user] = db.select().from(users).where(eq(users.id, payload.userId)):
\* the email and role of the response are the row's.
SessionUser(accessToken) ==
    [email |-> users[accessToken.userId].email,
     role |-> users[accessToken.userId].role]

SessionResult(accessToken) ==
    LET req == [Response("session", 0, "", "") EXCEPT !.reqCookie = accessToken]
    IN
    IF accessToken = NoToken
    THEN [req EXCEPT !.status = 401, !.code = "UNAUTHORIZED",
                     !.message = "Not authenticated"]
    ELSE IF ~verifyRefreshToken(accessToken, now)
    THEN [req EXCEPT !.status = 401, !.code = "INVALID_TOKEN",
                     !.message = "Invalid or expired token"]
    ELSE IF accessToken.userId \notin DOMAIN users
    THEN [req EXCEPT !.status = 404, !.code = "USER_NOT_FOUND",
                     !.message = "User not found"]
    ELSE [req EXCEPT !.status = 200, !.code = "OK",
                     !.userKeys = LoginUserKeys,
                     !.userId = users[accessToken.userId].id,
                     !.userEmail = SessionUser(accessToken).email,
                     !.userRole = SessionUser(accessToken).role,
                     !.referralCode = users[accessToken.userId].referralCode]

GetSession(accessToken) ==
    /\ last' = SessionResult(accessToken)
    /\ UNCHANGED <<now, ticks, users, channelPartners, sessions, leads, pending, jar, followUps, activities>>

\* ------------------------------------------------------- POST /refresh
\* The handler with the Session lookup moved before the verification.
RefreshResult_SessionFirst(refreshToken) ==
    LET req == [Response("refresh", 0, "", "") EXCEPT !.reqCookie = refreshToken]
        newAccessToken ==
            generateAccessToken([userId |-> refreshToken.userId,
                                 email |-> refreshToken.email,
                                 role |-> refreshToken.role], now)
    IN
    IF refreshToken = NoToken
    THEN [req EXCEPT !.status = 401, !.code = "NO_REFRESH_TOKEN",
                     !.message = "Refresh token not found"]
    ELSE IF SessionsByToken(refreshToken) = {}
    THEN [req EXCEPT !.status = 401, !.code = "SESSION_NOT_FOUND",
                     !.message = "Session not found"]
    ELSE IF ~verifyRefreshToken(refreshToken, now)
    THEN [req EXCEPT !.status = 401, !.code = "INVALID_REFRESH_TOKEN",
                     !.message = "Invalid or expired refresh token"]
    ELSE [req EXCEPT !.status = 200, !.code = "OK",
                     !.message = "Token refreshed successfully",
                     !.accessToken = newAccessToken,
                     !.setAccessToken = newAccessToken,
                     !.setCookies = SetCookies({"accessToken"})]

\* The handler as it would be with refresh-token rotation.
RefreshResult_Rotates(refreshToken) ==
    LET req == [Response("refresh", 0, "", "") EXCEPT !.reqCookie = refreshToken]
        payload == [userId |-> refreshToken.userId, email |-> refreshToken.email,
                    role |-> refreshToken.role]
    IN
    IF refreshToken = NoToken
    THEN [req EXCEPT !.status = 401, !.code = "NO_REFRESH_TOKEN",
                     !.message = "Refresh token not found"]
    ELSE IF ~verifyRefreshToken(refreshToken, now)
    THEN [req EXCEPT !.status = 401, !.code = "INVALID_REFRESH_TOKEN",
                     !.message = "Invalid or expired refresh token"]
    ELSE IF SessionsByToken(refreshToken) = {}
    THEN [req EXCEPT !.status = 401, !.code = "SESSION_NOT_FOUND",
                     !.message = "Session not found"]
    ELSE [req EXCEPT !.status = 200, !.code = "OK",
                     !.message = "Token refreshed successfully",
                     !.accessToken = generateAccessToken(payload, now),
                     !.setAccessToken = generateAccessToken(payload, now),
                     !.setRefreshToken = generateRefreshToken(payload, now),
                     !.setCookies = SetCookies({"accessToken", "refreshToken"})]

\* The response of the handler for the refreshToken cookie it reads.
RefreshResult(refreshToken) ==
    LET req == [Response("refresh", 0, "", "") EXCEPT !.reqCookie = refreshToken]
        newAccessToken ==
            generateAccessToken([userId |-> refreshToken.userId,
                                 email |-> refreshToken.email,
                                 role |-> refreshToken.role], now)
    IN
    IF refreshToken = NoToken
    THEN [req EXCEPT !.status = 401, !.code = "NO_REFRESH_TOKEN",
                     !.message = "Refresh token not found"]
    ELSE IF ~verifyRefreshToken(refreshToken, now)
    THEN [req EXCEPT !.status = 401, !.code = "INVALID_REFRESH_TOKEN",
                     !.message = "Invalid or expired refresh token"]
    ELSE IF SessionsByToken(refreshToken) = {}
    THEN [req EXCEPT !.status = 401, !.code = "SESSION_NOT_FOUND",
                     !.message = "Session not found"]
    ELSE [req EXCEPT !.status = 200, !.code = "OK",
                     !.message = "Token refreshed successfully",
                     !.accessToken = newAccessToken,
                     !.setAccessToken = newAccessToken,
                     !.setCookies = SetCookies({"accessToken"})]

Refresh(refreshToken) ==
    /\ last' = RefreshResult(refreshToken)
    /\ jar' = IF RefreshResult(refreshToken).setAccessToken # NoToken
              THEN jar \cup {RefreshResult(refreshToken).setAccessToken}
              ELSE jar
    /\ UNCHANGED <<now, ticks, users, channelPartners, sessions, leads, pending, followUps, activities>>

\* ------------------------------------------------- POST /leads/public
JD100000 == <<"J","D","1","0","0","0","0","0">>
JD100001 == <<"J","D","1","0","0","0","0","1">>
jd100000 == <<"j","d","1","0","0","0","0","0">>
XY123456 == <<"X","Y","1","2","3","4","5","6">>

\* body.referralCode: absent, the empty string, the code of a partner as
\* generated, the same in lower case, a code nobody has.
LeadCodes == {ABSENT, <<>>, JD100000, jd100000, XY123456}

\* if (body.referralCode): neither undefined nor the empty string.
Truthy(str) == str # ABSENT /\ str # <<>>

FindChannelPartnerUser_IgnoresActive(referralCode) ==
    {i \in DOMAIN users :
        /\ users[i].referralCode = toUpperCase(referralCode)
        /\ users[i].role = CHANNEL_PARTNER}

\* select from users where referralCode = code.toUpperCase() and
\* role = channel_partner and isActive = true
FindChannelPartnerUser(referralCode) ==
    {i \in DOMAIN users :
        /\ users[i].referralCode = toUpperCase(referralCode)
        /\ users[i].role = CHANNEL_PARTNER
        /\ users[i].isActive}

LeadSource_DefinedCheck(referralCode) ==
    IF referralCode # ABSENT THEN "referral" ELSE "website"

\* source: body.referralCode ? 'referral' : 'website'
LeadSource(referralCode) ==
    IF Truthy(referralCode) THEN "referral" ELSE "website"

PublicLead(referralCode) ==
    LET req == [Response("lead", 0, "", "") EXCEPT !.reqCode = referralCode]
        found == IF Truthy(referralCode) THEN FindChannelPartnerUser(referralCode) ELSE {}
    IN
    /\ IF Truthy(referralCode) /\ found = {}
       THEN /\ last' = [req EXCEPT !.status = 400, !.code = "INVALID_REFERRAL_CODE",
                                   !.message = "Invalid or inactive referral code"]
            /\ UNCHANGED leads
       ELSE LET channelPartnerUser == IF found = {} THEN NoId ELSE CHOOSE i \in found : TRUE
                records == IF found = {} THEN {} ELSE ChannelPartnersByUser(channelPartnerUser)
                assignedChannelPartnerId ==
                    IF records = {} THEN NoId ELSE CHOOSE r \in records : TRUE
                channelPartnerUserId ==
                    IF records = {} THEN NoId ELSE channelPartnerUser
                newLead ==
                    [id |-> Len(leads) + 1, status |-> "new",
                     source |-> LeadSource(referralCode), notes |-> NULL,
                     assignedChannelPartnerId |-> assignedChannelPartnerId,
                     metadata |->
                        IF Truthy(referralCode) \/ channelPartnerUserId # NoId
                        THEN [referralCode |-> referralCode,
                              channelPartnerUserId |-> channelPartnerUserId,
                              submittedFrom |-> "website"]
                        ELSE [referralCode |-> NULL, channelPartnerUserId |-> NoId,
                              submittedFrom |-> "null"]]
            IN
            /\ Len(leads) < MaxLeads
            /\ leads' = Append(leads, newLead)
            /\ last' = [req EXCEPT !.status = 201, !.code = "OK",
                           !.message = IF Truthy(referralCode)
                                       THEN "Lead submitted successfully! Your channel partner will contact you soon."
                                       ELSE "Lead submitted successfully! We will contact you soon.",
                           !.leadId = newLead.id]
    /\ UNCHANGED <<now, ticks, users, channelPartners, sessions, pending, jar, followUps, activities>>

\* --------------------------------------------------------- requireAuth
\* The middleware's verdict on the accessToken cookie: whether it calls
\* next(), the user it attaches to the context, and its 401 otherwise.
\* The middleware with a lookup of the user's sessions added.
requireAuth_ChecksSession(accessToken) ==
    IF accessToken = NoToken
    THEN [next |-> FALSE, user |-> NoId, status |-> 401, code |-> "UNAUTHORIZED",
          message |-> "Authentication required", email |-> "", role |-> NoRole]
    ELSE IF ~verifyAccessToken(accessToken, now)
    THEN [next |-> FALSE, user |-> NoId, status |-> 401, code |-> "INVALID_TOKEN",
          message |-> "Invalid or expired token", email |-> "", role |-> NoRole]
    ELSE IF \/ accessToken.userId \notin DOMAIN users
            \/ ~users[accessToken.userId].isActive
            \/ \A s \in sessions : s.userId # accessToken.userId
    THEN [next |-> FALSE, user |-> NoId, status |-> 401, code |-> "UNAUTHORIZED",
          message |-> "User not found or inactive", email |-> "", role |-> NoRole]
    ELSE [next |-> TRUE, user |-> accessToken.userId, status |-> 0, code |-> "",
          message |-> "", email |-> users[accessToken.userId].email,
          role |-> users[accessToken.userId].role]

requireAuth_IgnoresActive(accessToken) ==
    IF accessToken = NoToken
    THEN [next |-> FALSE, user |-> NoId, status |-> 401, code |-> "UNAUTHORIZED",
          message |-> "Authentication required", email |-> "", role |-> NoRole]
    ELSE IF ~verifyAccessToken(accessToken, now)
    THEN [next |-> FALSE, user |-> NoId, status |-> 401, code |-> "INVALID_TOKEN",
          message |-> "Invalid or expired token", email |-> "", role |-> NoRole]
    ELSE IF accessToken.userId \notin DOMAIN users
    THEN [next |-> FALSE, user |-> NoId, status |-> 401, code |-> "UNAUTHORIZED",
          message |-> "User not found or inactive", email |-> "", role |-> NoRole]
    ELSE [next |-> TRUE, user |-> accessToken.userId, status |-> 0, code |-> "",
          message |-> "", email |-> users[accessToken.userId].email,
          role |-> users[accessToken.userId].role]

requireAuth(accessToken) ==
    IF accessToken = NoToken
    THEN [next |-> FALSE, user |-> NoId, status |-> 401, code |-> "UNAUTHORIZED",
          message |-> "Authentication required", email |-> "", role |-> NoRole]
    ELSE IF ~verifyAccessToken(accessToken, now)
    THEN [next |-> FALSE, user |-> NoId, status |-> 401, code |-> "INVALID_TOKEN",
          message |-> "Invalid or expired token", email |-> "", role |-> NoRole]
    ELSE IF \/ accessToken.userId \notin DOMAIN users
            \/ ~users[accessToken.userId].isActive
    THEN [next |-> FALSE, user |-> NoId, status |-> 401, code |-> "UNAUTHORIZED",
          message |-> "User not found or inactive", email |-> "", role |-> NoRole]
    ELSE [next |-> TRUE, user |-> accessToken.userId, status |-> 0, code |-> "",
          message |-> "", email |-> users[accessToken.userId].email,
          role |-> users[accessToken.userId].role]

\* The response of a protected route whose middleware did not call next().
Denied(op, accessToken) ==
    [Response(op, requireAuth(accessToken).status, requireAuth(accessToken).code,
              requireAuth(accessToken).message) EXCEPT !.reqCookie = accessToken]

\* ---------------------------------------------------------- GET /leads
\* .orderBy(desc(leads.createdAt)): newest first.
RECURSIVE Reverse(_)
Reverse(s) == IF Len(s) = 0 THEN <<>> ELSE Append(Reverse(Tail(s)), Head(s))

LeadIds(rows) == [i \in DOMAIN rows |-> rows[i].id]

\* select from leads where assignedChannelPartnerId = id, newest first
LeadsAssignedTo(id) ==
    LET Mine(l) == l.assignedChannelPartnerId = id
    IN Reverse(SelectSeq(leads, Mine))

\* user.role === UserRole.CHANNEL_PARTNER
ScopedToOwnLeads_Never(role) == FALSE

ScopedToOwnLeads(role) == role = CHANNEL_PARTNER

\* The rows the handler returns to the user the middleware attached.
LeadsFor(user) ==
    IF ScopedToOwnLeads(users[user].role)
    THEN IF ChannelPartnersByUser(user) = {}
         THEN <<>>
         ELSE LeadsAssignedTo(CHOOSE r \in ChannelPartnersByUser(user) : TRUE)
    ELSE Reverse(leads)

GetLeads(accessToken) ==
    /\ last' = IF ~requireAuth(accessToken).next
               THEN Denied("leads", accessToken)
               ELSE [Response("leads", 200, "OK", "") EXCEPT
                        !.reqCookie = accessToken, !.next = TRUE,
                        !.callerId = requireAuth(accessToken).user,
                        !.callerEmail = requireAuth(accessToken).email,
                        !.callerRole = requireAuth(accessToken).role,
                        !.leadIds = LeadIds(LeadsFor(requireAuth(accessToken).user))]
    /\ UNCHANGED <<now, ticks, users, channelPartners, sessions, leads, pending, jar, followUps, activities>>

\* ------------------------------------------------------ GET /leads/:id
GetLead(accessToken, id) ==
    /\ last' = IF ~requireAuth(accessToken).next
               THEN [Denied("lead", accessToken) EXCEPT !.leadId = id]
               ELSE IF id \notin DOMAIN leads
               THEN [Response("lead", 404, "NOT_FOUND", "Lead not found") EXCEPT
                        !.reqCookie = accessToken, !.next = TRUE, !.leadId = id,
                        !.callerId = requireAuth(accessToken).user]
               ELSE [Response("lead", 200, "OK", "") EXCEPT
                        !.reqCookie = accessToken, !.next = TRUE, !.leadId = id,
                        !.callerId = requireAuth(accessToken).user,
                        !.leadIds = <<leads[id].id>>]
    /\ UNCHANGED <<now, ticks, users, channelPartners, sessions, leads, pending, jar, followUps, activities>>

\* ------------------------------------------------------ PUT /leads/:id
\* A body field that is absent, for the enum-valued fields.
NoStatus == "undefined"

LeadStatuses ==
    {"new", "contacted", "qualified", "site_visit", "negotiation", "converted", "lost"}

\* zValidator('json', updateLeadSchema): status is an optional member of
\* the enum, notes an optional string.
updateLeadSchema(body) == body.status \in LeadStatuses \cup {NoStatus}

\* if (body.status && body.status !== existingLead.status) changes.push(...)
\* if (body.notes && body.notes !== existingLead.notes) changes.push(...)
LeadChanges(existingLead, body) ==
    (IF body.status # NoStatus /\ body.status # existingLead.status
     THEN <<"Status changed">> ELSE <<>>)
    \o (IF Truthy(body.notes) /\ body.notes # existingLead.notes
        THEN <<"Notes updated">> ELSE <<>>)

\* .set({...body, updatedAt}): the fields the body carries, over the row.
UpdatedLead(existingLead, body) ==
    [existingLead EXCEPT
        !.status = IF body.status = NoStatus THEN @ ELSE body.status,
        !.notes = IF body.notes = ABSENT THEN @ ELSE body.notes]

UpdateLead(accessToken, id, body) ==
    LET auth == requireAuth(accessToken)
        req == [Response("updateLead", 0, "", "") EXCEPT
                   !.reqCookie = accessToken, !.leadId = id, !.reqBody = body]
        ran == [req EXCEPT !.next = TRUE, !.callerId = auth.user]
    IN
    /\ IF ~auth.next
       THEN /\ last' = [req EXCEPT !.status = auth.status, !.code = auth.code,
                                   !.message = auth.message]
            /\ UNCHANGED <<leads, activities>>
       ELSE IF ~updateLeadSchema(body)
       THEN /\ last' = [ran EXCEPT !.status = 400, !.code = "ZodError"]
            /\ UNCHANGED <<leads, activities>>
       ELSE IF id \notin DOMAIN leads
       THEN /\ last' = [ran EXCEPT !.status = 404, !.code = "NOT_FOUND",
                                   !.message = "Lead not found"]
            /\ UNCHANGED <<leads, activities>>
       ELSE LET changes == LeadChanges(leads[id], body)
            IN
            /\ changes # <<>> => Len(activities) < MaxActivities
            /\ leads' = [leads EXCEPT ![id] = UpdatedLead(leads[id], body)]
            /\ activities' =
                  IF changes # <<>>
                  THEN Append(activities,
                          [entityType |-> "lead", entityId |-> id,
                           userId |-> auth.user, activityType |-> "lead_updated",
                           description |-> changes])
                  ELSE activities
            /\ last' = [ran EXCEPT !.status = 200, !.code = "OK",
                                   !.message = "Lead updated successfully"]
    /\ UNCHANGED <<now, ticks, users, channelPartners, sessions, pending, jar, followUps>>

\* ------------------------------------------- POST /leads/:id/follow-ups
FollowUpTypes == {"call", "meeting", "email", "whatsapp"}

\* body.scheduledAt: an ISO date, and a string new Date() cannot parse.
ISODate == <<"2","0","2","6","-","0","1","-","0","1">>
NotADate == <<"s","o","o","n">>

\* zValidator('json', createFollowUpSchema): scheduledAt is any string.
createFollowUpSchema(body) == body.type \in FollowUpTypes

\* new Date(body.scheduledAt) is a valid date; an Invalid Date makes the
\* insert throw.
ValidDate(scheduledAt) == scheduledAt = ISODate

CreateFollowUp(accessToken, leadId, body) ==
    LET auth == requireAuth(accessToken)
        req == [Response("createFollowUp", 0, "", "") EXCEPT
                   !.reqCookie = accessToken, !.leadId = leadId, !.reqBody = body]
        ran == [req EXCEPT !.next = TRUE, !.callerId = auth.user]
        newFollowUp ==
            [id |-> Len(followUps) + 1, leadId |-> leadId, userId |-> auth.user,
             type |-> body.type, status |-> "pending", completedAt |-> NoTime]
    IN
    /\ IF ~auth.next
       THEN /\ last' = [req EXCEPT !.status = auth.status, !.code = auth.code,
                                   !.message = auth.message]
            /\ UNCHANGED <<followUps, activities>>
       ELSE IF ~createFollowUpSchema(body)
       THEN /\ last' = [ran EXCEPT !.status = 400, !.code = "ZodError"]
            /\ UNCHANGED <<followUps, activities>>
       ELSE IF leadId \notin DOMAIN leads
       THEN /\ last' = [ran EXCEPT !.status = 404, !.code = "NOT_FOUND",
                                   !.message = "Lead not found"]
            /\ UNCHANGED <<followUps, activities>>
       ELSE IF ~ValidDate(body.scheduledAt)
       THEN /\ last' = [ran EXCEPT !.status = 500, !.code = "FOLLOW_UP_ERROR",
                                   !.message = "Failed to create follow-up"]
            /\ UNCHANGED <<followUps, activities>>
       ELSE /\ Len(followUps) < MaxFollowUps
            /\ Len(activities) < MaxActivities
            /\ followUps' = Append(followUps, newFollowUp)
            /\ activities' = Append(activities,
                  [entityType |-> "lead", entityId |-> leadId,
                   userId |-> auth.user, activityType |-> "follow_up_scheduled",
                   description |-> <<"Follow-up scheduled">>])
            /\ last' = [ran EXCEPT !.status = 201, !.code = "OK",
                                   !.message = "Follow-up scheduled successfully",
                                   !.followUpId = newFollowUp.id]
    /\ UNCHANGED <<now, ticks, users, channelPartners, sessions, leads, pending, jar>>

\* -------------------------------------------- PUT /leads/follow-ups/:id
\* status: body.status || 'completed' (the body is not validated)
FollowUpStatus(status) == IF status = NoStatus THEN "completed" ELSE status

UpdateFollowUp(accessToken, id, body) ==
    LET auth == requireAuth(accessToken)
        req == [Response("updateFollowUp", 0, "", "") EXCEPT
                   !.reqCookie = accessToken, !.followUpId = id, !.reqBody = body]
        ran == [req EXCEPT !.next = TRUE, !.callerId = auth.user]
    IN
    /\ IF ~auth.next
       THEN /\ last' = [req EXCEPT !.status = auth.status, !.code = auth.code,
                                   !.message = auth.message]
            /\ UNCHANGED <<followUps, activities>>
       ELSE IF id \notin DOMAIN followUps
       THEN /\ last' = [ran EXCEPT !.status = 200, !.code = "OK",
                                   !.message = "Follow-up updated successfully"]
            /\ UNCHANGED <<followUps, activities>>
       ELSE /\ Len(activities) < MaxActivities
            /\ followUps' = [followUps EXCEPT
                                ![id].status = FollowUpStatus(body.status),
                                ![id].completedAt = now]
            /\ activities' = Append(activities,
                  [entityType |-> "lead", entityId |-> followUps[id].leadId,
                   userId |-> auth.user, activityType |-> "follow_up_completed",
                   description |-> <<"Follow-up completed">>])
            /\ last' = [ran EXCEPT !.status = 200, !.code = "OK",
                                   !.message = "Follow-up updated successfully"]
    /\ UNCHANGED <<now, ticks, users, channelPartners, sessions, leads, pending, jar>>

\* -------------------------------------------------------- PUT /profile
\* body.email when the body has none.
NoEmail == ""

\* zValidator('json', updateProfileSchema): every field is optional.
updateProfileSchema(body) ==
    body.fullName = ABSENT \/ Len(body.fullName) >= FULLNAME_MIN

\* The row as the update would leave it: ...body over the stored row.
ProfileRow(row, email, fullName) ==
    [row EXCEPT !.email = IF email = NoEmail THEN @ ELSE email,
                !.fullName = IF fullName = ABSENT THEN @ ELSE fullName]

\* Middleware, validation and the check that the new email is free.
ProfileStart(p, accessToken, body) ==
    LET auth == requireAuth(accessToken)
        req == [Response("profile", 0, "", "") EXCEPT
                   !.reqCookie = accessToken, !.reqEmail = body.email]
    IN
    /\ pending[p].pc = "idle"
    /\ IF ~auth.next
       THEN /\ last' = [req EXCEPT !.status = auth.status, !.code = auth.code,
                                   !.message = auth.message]
            /\ UNCHANGED pending
       ELSE IF ~updateProfileSchema(body)
       THEN /\ last' = [req EXCEPT !.status = 400, !.code = "ZodError",
                           !.message = "Name must be at least 2 characters",
                           !.next = TRUE, !.callerId = auth.user]
            /\ UNCHANGED pending
       ELSE IF /\ body.email # NoEmail
               /\ body.email # users[auth.user].email
               /\ UsersByEmail(body.email) # {}
       THEN /\ last' = [req EXCEPT !.status = 400, !.code = "EMAIL_EXISTS",
                           !.message = "Email already in use",
                           !.next = TRUE, !.callerId = auth.user]
            /\ UNCHANGED pending
       ELSE /\ pending' = [pending EXCEPT ![p] =
                              [Idle EXCEPT !.pc = "updateProfile", !.email = body.email,
                                           !.fullName = body.fullName,
                                           !.userId = auth.user]]
            /\ last' = [req EXCEPT !.code = "IN_FLIGHT", !.next = TRUE,
                           !.callerId = auth.user]
    /\ UNCHANGED <<now, ticks, users, channelPartners, sessions, leads, jar, followUps, activities>>

\* db.update(users).set({...body, updatedAt}).where(eq(users.id, user.id));
\* a unique violation throws and the catch block answers 500 UPDATE_ERROR.
ProfileUpdate(p) ==
    /\ pending[p].pc = "updateProfile"
    /\ LET b == pending[p]
           updatedUser == ProfileRow(users[b.userId], b.email, b.fullName)
           others == [i \in DOMAIN users |-> IF i = b.userId THEN updatedUser ELSE users[i]]
           req == [Response("profile", 0, "", "") EXCEPT
                      !.reqEmail = b.email, !.next = TRUE, !.callerId = b.userId]
       IN
       IF UsersUniqueViolation(updatedUser)
       THEN /\ last' = [req EXCEPT !.status = 500, !.code = "UPDATE_ERROR",
                           !.message = "Failed to update profile"]
            /\ UNCHANGED users
       ELSE /\ users' = others
            /\ last' = [req EXCEPT !.status = 200, !.code = "OK",
                           !.message = "Profile updated successfully",
                           !.userKeys = LoginUserKeys, !.userId = updatedUser.id,
                           !.referralCode = updatedUser.referralCode]
    /\ pending' = [pending EXCEPT ![p] = Idle]
    /\ UNCHANGED <<now, ticks, channelPartners, sessions, leads, jar, followUps, activities>>

\* ------------------------------------------------------- PUT /password
\* zValidator('json', changePasswordSchema)
changePasswordSchema(body) ==
    /\ Len(body.currentPassword) >= 1
    /\ Len(body.newPassword) >= PASSWORD_MIN

\* The rows the handler deletes: every session of the user, but only when
\* the request carries a refreshToken cookie (`if (refreshToken)`; the
\* cookie is not verified).
InvalidatedSessions(user, refreshToken) ==
    IF refreshToken # NoToken
    THEN {s \in sessions : s.userId = user}
    ELSE {}

ChangePassword(accessToken, refreshToken, body) ==
    LET auth == requireAuth(accessToken)
        req == [Response("password", 0, "", "") EXCEPT
                   !.reqCookie = accessToken, !.reqRefreshCookie = refreshToken,
                   !.reqPassword = body.currentPassword,
                   !.reqNewPassword = body.newPassword]
        ran == [req EXCEPT !.next = TRUE, !.callerId = auth.user]
    IN
    /\ IF ~auth.next
       THEN /\ last' = [req EXCEPT !.status = auth.status, !.code = auth.code,
                                   !.message = auth.message]
            /\ UNCHANGED <<users, sessions>>
       ELSE IF ~changePasswordSchema(body)
       THEN /\ last' = [ran EXCEPT !.status = 400, !.code = "ZodError",
                           !.message = "Password must be at least 8 characters"]
            /\ UNCHANGED <<users, sessions>>
       ELSE IF ~verifyPassword(body.currentPassword, users[auth.user].passwordHash)
       THEN /\ last' = [ran EXCEPT !.status = 400, !.code = "INVALID_PASSWORD",
                           !.message = "Current password is incorrect"]
            /\ UNCHANGED <<users, sessions>>
       ELSE IF ~validatePasswordStrength(body.newPassword).valid
       THEN /\ last' = [ran EXCEPT !.status = 400, !.code = "WEAK_PASSWORD",
                           !.message = validatePasswordStrength(body.newPassword).message]
            /\ UNCHANGED <<users, sessions>>
       ELSE /\ users' = [users EXCEPT
                            ![auth.user].passwordHash = hashPassword(body.newPassword)]
            /\ sessions' = sessions \ InvalidatedSessions(auth.user, refreshToken)
            /\ last' = [ran EXCEPT !.status = 200, !.code = "OK",
                           !.message = "Password changed successfully"]
    /\ UNCHANGED <<now, ticks, channelPartners, leads, pending, jar, followUps, activities>>

\* ----------------------------------------------- POST /forgot-password
\* What auth.api.forgetPassword can do for the email: send the reset link
\* to the account's address, find no account and do nothing, or throw
\* (the mail transport or the database failed).
ForgetPasswordOutcomes(email) ==
    IF UsersByEmail(email) # {} THEN {"sent", "throws"} ELSE {"none", "throws"}

ForgotPasswordCatch_Reveals ==
    [status |-> 500, code |-> "FORGOT_PASSWORD_ERROR",
     message |-> "Failed to send password reset link."]

\* The response of the catch block.
ForgotPasswordCatch ==
    [status |-> 200, code |-> "OK",
     message |-> "If an account with that email exists, we sent a password reset link."]

ForgotPassword(email, outcome) ==
    /\ outcome \in ForgetPasswordOutcomes(email)
    /\ last' = IF outcome = "throws"
               THEN [Response("forgot", ForgotPasswordCatch.status, ForgotPasswordCatch.code,
                              ForgotPasswordCatch.message)
                        EXCEPT !.reqEmail = email, !.outcome = outcome]
               ELSE [Response("forgot", 200, "OK",
                              "If an account with that email exists, we sent a password reset link.")
                        EXCEPT !.reqEmail = email, !.outcome = outcome]
    /\ UNCHANGED <<now, ticks, users, channelPartners, sessions, leads, pending, jar, followUps, activities>>

\* ---------------------------------------------------------- environment
\* How far one advance of the clock goes: by the lifetime of an access
\* token, or by the lifetime of a refresh token.
TickSteps == {ACCESS_TOKEN_EXPIRY, REFRESH_TOKEN_EXPIRY}

Tick(d) ==
    /\ ticks < MaxTicks
    /\ now' = now + d
    /\ ticks' = ticks + 1
    /\ last' = Response("tick", 0, "", "")
    /\ UNCHANGED <<users, channelPartners, sessions, leads, pending, jar, followUps, activities>>

\* An operator of the database clears users.is_active (no route does).
Deactivate(id) ==
    /\ id \in DOMAIN users
    /\ users[id].isActive
    /\ users' = [users EXCEPT ![id].isActive = FALSE]
    /\ last' = Response("deactivate", 0, "", "")
    /\ UNCHANGED <<now, ticks, channelPartners, sessions, leads, pending, jar, followUps, activities>>

\* An operator of the database rewrites users.role (no route does).
SetRole(id, role) ==
    /\ id \in DOMAIN users
    /\ users[id].role # role
    /\ users' = [users EXCEPT ![id].role = role]
    /\ last' = Response("setRole", 0, "", "")
    /\ UNCHANGED <<now, ticks, channelPartners, sessions, leads, pending, jar, followUps, activities>>

\* An operator of the database deletes a User row (no route does), between
\* requests. sessions.user_id and the partner's user_id are ON DELETE
\* CASCADE; a lead that references the partner row, and a follow-up or an
\* activity that references the user, block the delete. Row
\* ids here are positions, so only the newest row of each table goes.
DeleteUser(id) ==
    /\ id = Len(users)
    /\ InFlight = {}
    /\ ChannelPartnersByUser(id) \subseteq {Len(channelPartners)}
    /\ \A i \in DOMAIN leads :
          leads[i].assignedChannelPartnerId \notin ChannelPartnersByUser(id)
    /\ \A i \in DOMAIN followUps : followUps[i].userId # id
    /\ \A i \in DOMAIN activities : activities[i].userId # id
    /\ users' = SubSeq(users, 1, Len(users) - 1)
    /\ channelPartners' = IF ChannelPartnersByUser(id) = {}
                          THEN channelPartners
                          ELSE SubSeq(channelPartners, 1, Len(channelPartners) - 1)
    /\ sessions' = {s \in sessions : s.userId # id}
    /\ last' = Response("deleteUser", 0, "", "")
    /\ UNCHANGED <<now, ticks, leads, pending, jar, followUps, activities>>

SignupBodies ==
    [email : Emails, password : SignupPasswords, fullName : FullNames, role : SignupRoles]

\* Signup requests of the slots P, with bodies of `bodies` and random
\* numbers of `ints`.
Signup(P, bodies, ints) ==
    \E p \in P :
        \/ \E body \in bodies : SignupStart(p, body, ints)
        \/ SignupInsertUser(p)
        \/ SignupInsertAgent(p)
        \/ SignupFinish(p)

\* Concurrent signups, every body of the model.
NextSignup == Signup(Procs, SignupBodies, RandomInts)

SpecSignup == Init /\ [][NextSignup]_vars

\* The token life cycle of one account: signups one at a time, then
\* logins, logouts, session lookups and refreshes as the clock advances.
AliceBodies ==
    {b \in SignupBodies : b.email = "alice@example.com" /\ b.password = Alice123
                             /\ b.role \in {NoRole, "admin"}}

Next ==
    \/ Signup({"r1"}, AliceBodies, {100000})
    \/ \E email \in Emails, password \in LoginPasswords : Login(email, password)
    \/ \E t \in CookieChoices : Logout(t)
    \/ \E t \in CookieChoices : GetSession(t)
    \/ \E t \in CookieChoices : Refresh(t)
    \/ \E d \in TickSteps : Tick(d)

Spec == Init /\ [][Next]_vars

\* The lead intake: partners sign up (one request at a time), an operator
\* may deactivate them, and the public form is submitted.
StrongBodies == {b \in SignupBodies : b.password = Alice123}

\* Logins of accounts that signed up (one request at a time), some of
\* them deactivated since, as the clock advances.
NextLogin ==
    \/ Signup({"r1"}, StrongBodies, {100000})
    \/ \E email \in Emails, password \in LoginPasswords : Login(email, password)
    \/ \E id \in DOMAIN users : Deactivate(id)
    \/ \E d \in TickSteps : Tick(d)

SpecLogin == Init /\ [][NextLogin]_vars

NextLeads ==
    \/ Signup({"r1"}, StrongBodies, RandomInts)
    \/ \E id \in DOMAIN users : Deactivate(id)
    \/ \E code \in LeadCodes : PublicLead(code)

SpecLeads == Init /\ [][NextLeads]_vars

\* Reading leads: accounts of every role sign up and log in, the public
\* form is submitted, and the two read routes are called with the access
\* tokens the clients hold.
ReaderBodies ==
    [email : Emails, password : {Alice123}, fullName : FullNames,
     role : {NoRole, "admin", "customer"}]

LeadIdChoices == 1..MaxLeads

AccessCookies == {t \in jar : IsAccessToken(t)}

NextReads ==
    \/ Signup({"r1"}, ReaderBodies, RandomInts)
    \/ \E email \in Emails : Login(email, Alice123)
    \/ \E code \in {ABSENT, JD100000, JD100001} : PublicLead(code)
    \/ \E t \in AccessCookies : GetLeads(t)
    \/ \E t \in AccessCookies, id \in LeadIdChoices : GetLead(t, id)

SpecReads == Init /\ [][NextReads]_vars

\* Partners reading their leads: two partners sign up with different
\* codes and log in, the public form is submitted with either code or
\* none, and each lists the leads.
PartnerBodies == {b \in ReaderBodies : b.role = NoRole}

NextPartners ==
    \/ Signup({"r1"}, PartnerBodies, RandomInts)
    \/ \E email \in Emails : Login(email, Alice123)
    \/ \E code \in {ABSENT, JD100000, JD100001} : PublicLead(code)
    \/ \E t \in AccessCookies : GetLeads(t)

SpecPartners == Init /\ [][NextPartners]_vars


\* The middleware in front of a protected route: one partner signs up and
\* logs in, is deactivated, the clock advances, and GET /leads is called
\* with any cookie.
NextGuard ==
    \/ Signup({"r1"}, AliceBodies, {100000})
    \/ Login("alice@example.com", Alice123)
    \/ \E id \in DOMAIN users : Deactivate(id)
    \/ \E d \in TickSteps : Tick(d)
    \/ \E t \in CookieChoices : GetLeads(t)

SpecGuard == Init /\ [][NextGuard]_vars

\* Password changes: two accounts sign up and log in as the clock
\* advances and change their password with or without the refreshToken
\* cookie.
RefreshCookies == {t \in jar : IsRefreshToken(t)}

PasswordBodies ==
    {[currentPassword |-> Alice123, newPassword |-> Valid123],
     [currentPassword |-> Alice123, newPassword |-> alllowercase1],
     [currentPassword |-> Alice123, newPassword |-> weak],
     [currentPassword |-> WrongPassword, newPassword |-> Valid123]}

NextPassword ==
    \/ Signup({"r1"}, PartnerBodies, RandomInts)
    \/ \E email \in Emails : Login(email, Alice123)
    \/ \E t \in AccessCookies :
          \E r \in {x \in RefreshCookies : x.userId = t.userId} \cup {NoToken},
             body \in PasswordBodies : ChangePassword(t, r, body)
    \/ \E d \in {ACCESS_TOKEN_EXPIRY} : Tick(d)

SpecPassword == Init /\ [][NextPassword]_vars

\* Password changes of one account: every pairing of a right or wrong
\* current password with a strong, a weak and a too short new password,
\* and logins with the old and the new password.
ChangeBodies ==
    [currentPassword : {Alice123, Valid123, WrongPassword},
     newPassword : {Valid123, alllowercase1, weak}]

NextChange ==
    \/ Signup({"r1"}, {b \in AliceBodies : b.role = NoRole}, {100000})
    \/ \E password \in {Alice123, Valid123} : Login("alice@example.com", password)
    \/ \E t \in AccessCookies, r \in RefreshCookies \cup {NoToken},
          body \in ChangeBodies : ChangePassword(t, r, body)
    \/ \E d \in {ACCESS_TOKEN_EXPIRY} : Tick(d)

SpecChange == Init /\ [][NextChange]_vars

\* Devices: two accounts (a partner and an admin) sign up and log in, each
\* from up to two devices, and log out with any cookie in circulation.
DeviceBodies ==
    {b \in StrongBodies : \/ b.email = "alice@example.com" /\ b.role = NoRole
                          \/ b.email = "bob@example.com" /\ b.role = "admin"}

NextDevices ==
    \/ Signup({"r1"}, DeviceBodies, {100000})
    \/ \E email \in Emails : Login(email, Alice123)
    \/ \E t \in RefreshCookies \cup {NoToken} : Logout(t)
    \/ \E d \in {ACCESS_TOKEN_EXPIRY} : Tick(d)

SpecDevices == Init /\ [][NextDevices]_vars

\* Lead updates: one account, leads from the public form, and updates of
\* any lead with every pairing of a status (absent, two of the
\* enumeration, one outside it) and notes (absent, empty, a text).
LeadUpdateBodies ==
    [status : {NoStatus, "contacted", "converted", "archived"},
     notes : {ABSENT, <<>>, <<"h", "i">>}]

NextLeadUpdates ==
    \/ Signup({"r1"}, {b \in AliceBodies : b.role = NoRole}, {100000})
    \/ PublicLead(ABSENT)
    \/ \E t \in AccessCookies \cup {NoToken}, id \in LeadIdChoices,
          body \in LeadUpdateBodies : UpdateLead(t, id, body)

SpecLeadUpdates == Init /\ [][NextLeadUpdates]_vars

\* Follow-ups: two accounts schedule follow-ups on the leads of the public
\* form and update them, with valid and invalid bodies and ids.
NextFollowUps ==
    \/ Signup({"r1"}, DeviceBodies, {100000})
    \/ PublicLead(ABSENT)
    \/ \E t \in AccessCookies \cup {NoToken}, id \in LeadIdChoices,
          body \in [type : {"call", "fax"}, scheduledAt : {ISODate, NotADate}] :
             CreateFollowUp(t, id, body)
    \/ \E t \in AccessCookies \cup {NoToken}, id \in 1..MaxFollowUps,
          body \in [status : {NoStatus, "completed", "pending"}] :
             UpdateFollowUp(t, id, body)

SpecFollowUps == Init /\ [][NextFollowUps]_vars

\* Revocation: one account signs up and logs in, logs out and changes its
\* password, and calls GET /session and a protected route with the access
\* tokens it was handed, as the clock advances.
RevokeBodies ==
    {[currentPassword |-> Alice123, newPassword |-> Valid123],
     [currentPassword |-> WrongPassword, newPassword |-> Valid123]}

NextRevoke ==
    \/ Signup({"r1"}, {b \in AliceBodies : b.role = NoRole}, {100000})
    \/ Login("alice@example.com", Alice123)
    \/ \E t \in RefreshCookies \cup {NoToken} : Logout(t)
    \/ \E t \in AccessCookies, r \in RefreshCookies \cup {NoToken},
          body \in RevokeBodies : ChangePassword(t, r, body)
    \/ \E t \in AccessCookies : GetSession(t)
    \/ \E t \in AccessCookies : GetLeads(t)
    \/ \E d \in {ACCESS_TOKEN_EXPIRY} : Tick(d)

SpecRevoke == Init /\ [][NextRevoke]_vars

\* Identity reads: one account signs up and logs in; its email changes
\* through PUT /profile, its role and its row through the database; GET
\* /session and a protected route are called with every access token handed
\* out. A real id is never reused, so no account signs up once some token
\* in circulation names a deleted row.
NextIdentity ==
    \/ /\ \A t \in jar : t.userId \in DOMAIN users \cup {NoId}
       /\ Signup({"r1"}, {b \in AliceBodies : b.role = NoRole}, {100000})
    \/ Login("alice@example.com", Alice123)
    \/ \E t \in AccessCookies :
          ProfileStart("r1", t, [email |-> "bob@example.com", fullName |-> ABSENT])
    \/ ProfileUpdate("r1")
    \/ \E id \in DOMAIN users : SetRole(id, "admin")
    \/ \E id \in DOMAIN users : DeleteUser(id)
    \/ \E t \in AccessCookies : GetSession(t)
    \/ \E t \in AccessCookies : GetLeads(t)
    \/ \E d \in {ACCESS_TOKEN_EXPIRY} : Tick(d)

SpecIdentity == Init /\ [][NextIdentity]_vars

\* Accounts: concurrent signups and profile updates.
ProfileBodies == [email : Emails \cup {NoEmail}, fullName : {ABSENT, JohnDoe}]

NextAccounts ==
    \/ Signup(Procs, {b \in StrongBodies : b.role \in {NoRole, "admin"}}, RandomInts)
    \/ \E p \in Procs :
          \/ \E t \in AccessCookies, body \in ProfileBodies : ProfileStart(p, t, body)
          \/ ProfileUpdate(p)

SpecAccounts == Init /\ [][NextAccounts]_vars

\* Referral codes of every short name: one partner signs up under a name
\* made of a lower-case letter, an upper-case letter, a space and a digit.
NameChars == {"j", "D", " ", "5"}

Names == UNION {[1..n -> NameChars] : n \in 1..MaxNameLen}

NameBodies ==
    [email : {"alice@example.com"}, password : {Alice123}, fullName : Names,
     role : {NoRole}]

NextNames == Signup({"r1"}, NameBodies, RandomInts)

SpecNames == Init /\ [][NextNames]_vars

\* Password-reset requests for the emails of accounts and of nobody.
NextForgot ==
    \/ Signup({"r1"}, StrongBodies, {100000})
    \/ \E email \in Emails, outcome \in {"sent", "none", "throws"} :
          ForgotPassword(email, outcome)

SpecForgot == Init /\ [][NextForgot]_vars

\* Refreshing: one partner signs up and logs in, refreshes with any
\* cookie, logs out, and the clock advances.
NextRefresh ==
    \/ Signup({"r1"}, {b \in AliceBodies : b.role = NoRole}, {100000})
    \/ Login("alice@example.com", Alice123)
    \/ \E t \in RefreshCookies \cup {NoToken} : Logout(t)
    \/ \E t \in CookieChoices : Refresh(t)
    \/ \E d \in TickSteps : Tick(d)

SpecRefresh == Init /\ [][NextRefresh]_vars

\* Referral codes under collision: accounts of one name and of every role
\* the schema accepts sign up one at a time, the partners among them
\* drawing from two random numbers.
RoleBodies ==
    [email : Emails, password : {Alice123}, fullName : FullNames,
     role : UserRoles \cup {NoRole}]

NextReferral == Signup({"r1"}, RoleBodies, RandomInts)

SpecReferral == Init /\ [][NextReferral]_vars

\* ================================================================ claims

\* C1: a login whose email matches no user and a login whose email matches
\* a user but whose password is wrong get the same response (401,
\* INVALID_CREDENTIALS, "Invalid email or password"); neither creates a
\* Session row, sets a cookie or changes a user's last-login timestamp.
C1_LoginFailuresIndistinguishable ==
    [][(/\ last'.op = "login"
        /\ \/ UsersByEmail(last'.reqEmail) = {}
           \/ \E i \in UsersByEmail(last'.reqEmail) :
                  ~verifyPassword(last'.reqPassword, users[i].passwordHash))
       => (/\ last'.status = 401
           /\ last'.code = "INVALID_CREDENTIALS"
           /\ last'.message = "Invalid email or password"
           /\ sessions' = sessions
           /\ last'.setAccessToken = NoToken
           /\ last'.setRefreshToken = NoToken
           /\ users' = users)]_vars

\* C1 witness: a wrong-password login of an existing user who holds a
\* session was answered INVALID_CREDENTIALS.
C1_Witness ==
    /\ last.op = "login"
    /\ last.code = "INVALID_CREDENTIALS"
    /\ \E i \in UsersByEmail(last.reqEmail) :
           /\ ~verifyPassword(last.reqPassword, users[i].passwordHash)
           /\ \E x \in sessions : x.userId = i

\* C2 (as claimed): once a logout has deleted the Session row of an issued
\* refresh token (only logout deletes rows, so an issued refresh token
\* without a row is a logged-out one), a refresh that carries that token,
\* still signed and unexpired, is answered 401 SESSION_NOT_FOUND and issues
\* no access token, after every later step.
C2_RevokedTokenNeverRefreshes ==
    [][\A t \in jar :
          (/\ IsRefreshToken(t)
           /\ SessionsByToken(t) = {}
           /\ verifyRefreshToken(t, now'))
          => (/\ RefreshResult(t)'.status = 401
              /\ RefreshResult(t)'.code = "SESSION_NOT_FOUND"
              /\ RefreshResult(t)'.accessToken = NoToken)]_vars

\* C3: GET /session with an issued access token answers 200 with the
\* token's user while fewer than 15 minutes have passed since issuance and
\* 401 from then on; POST /refresh with an issued refresh token younger
\* than 7 days whose Session row exists answers 200 with a new access
\* token, which GET /session accepts for the same user.
C3_AccessExpiryAndRefresh ==
    /\ (last.op = "session" /\ last.reqCookie \in jar /\ IsAccessToken(last.reqCookie))
       => IF now < last.reqCookie.iat + ACCESS_TOKEN_EXPIRY
          THEN last.status = 200 /\ last.userId = last.reqCookie.userId
          ELSE last.status = 401
    /\ (/\ last.op = "refresh"
        /\ last.reqCookie \in jar
        /\ IsRefreshToken(last.reqCookie)
        /\ now < last.reqCookie.iat + REFRESH_TOKEN_EXPIRY
        /\ SessionsByToken(last.reqCookie) # {})
       => (/\ last.status = 200
           /\ IsAccessToken(last.accessToken)
           /\ last.accessToken.iat = now
           /\ SessionResult(last.accessToken).status = 200
           /\ SessionResult(last.accessToken).userId = last.reqCookie.userId)

\* C3 witness: GET /session accepted an access token minted by a refresh
\* (no login happened after time 0) after the first access token of that
\* user had expired.
C3_Witness ==
    /\ last.op = "session"
    /\ last.status = 200
    /\ last.reqCookie.iat >= ACCESS_TOKEN_EXPIRY
    /\ \A i \in DOMAIN users : users[i].lastLoginAt = NoTime
    /\ \E t \in jar : /\ IsAccessToken(t)
                      /\ t.userId = last.reqCookie.userId
                      /\ ~verifyAccessToken(t, now)

\* C4 (as claimed): every login of an active user with the correct password
\* answers 200 and inserts exactly one new Session row, keeping the rows
\* already there, however close in time the logins are.
C4_EveryLoginAddsASession ==
    [][(/\ last'.op = "login"
        /\ \E i \in UsersByEmail(last'.reqEmail) :
               /\ verifyPassword(last'.reqPassword, users[i].passwordHash)
               /\ users[i].isActive)
       => (/\ last'.status = 200
           /\ sessions \subseteq sessions'
           /\ Cardinality(sessions') = Cardinality(sessions) + 1)]_vars

\* A step that starts a signup request (no request in flight advances).
SignupStartStep ==
    /\ last'.op = "signup"
    /\ \A p \in Procs : pending[p].pc # "idle" => pending'[p] = pending[p]

NoRowWritten ==
    /\ users' = users
    /\ channelPartners' = channelPartners
    /\ sessions' = sessions

\* C5: a signup whose password passes the strength rules and whose email
\* already belongs to a user is answered 400 EMAIL_EXISTS; it writes no
\* User, Agent or Session row and sets no cookie.
C5_DuplicateEmailRejected ==
    [][(/\ SignupStartStep
        /\ validatePasswordStrength(last'.reqPassword).valid
        /\ UsersByEmail(last'.reqEmail) # {})
       => (/\ last'.status = 400
           /\ last'.code = "EMAIL_EXISTS"
           /\ NoRowWritten
           /\ pending' = pending
           /\ last'.setAccessToken = NoToken
           /\ last'.setRefreshToken = NoToken)]_vars

\* C5 witness: a second signup with the email of a completed signup was
\* answered EMAIL_EXISTS.
C5_Witness ==
    /\ last.op = "signup"
    /\ last.code = "EMAIL_EXISTS"
    /\ validatePasswordStrength(last.reqPassword).valid
    /\ \E i \in UsersByEmail(last.reqEmail) : \E x \in sessions : x.userId = i

\* C6 (as claimed): when a signup that passed the existence check finds its
\* email taken at insert time (a concurrent signup inserted it first), no
\* second User row is created and the request is answered EMAIL_EXISTS.
C6_RaceLoserGetsEmailExists ==
    [][(/\ last'.op = "signup"
        /\ \E p \in Procs : /\ pending[p].pc = "insertUser"
                            /\ pending'[p].pc # "insertUser"
                            /\ UsersByEmail(pending[p].email) # {})
       => (/\ users' = users
           /\ last'.status = 400
           /\ last'.code = "EMAIL_EXISTS")]_vars

\* C7 (as claimed): a signup whose password fails the strength rules is
\* answered 400 WEAK_PASSWORD and writes no User, Agent or Session row.
C7_WeakPasswordRejected ==
    [][(/\ SignupStartStep
        /\ ~validatePasswordStrength(last'.reqPassword).valid)
       => (/\ last'.status = 400
           /\ last'.code = "WEAK_PASSWORD"
           /\ NoRowWritten)]_vars

\* C8 (as claimed): the user object of a 201 signup response of a
\* channel_partner holds the referralCode stored on the new User row.
C8_SignupReturnsReferralCode ==
    (/\ last.op = "signup"
     /\ last.status = 201
     /\ users[last.userId].role = CHANNEL_PARTNER)
    => (/\ "referralCode" \in last.userKeys
        /\ last.referralCode = users[last.userId].referralCode)

\* The active channel partners whose referral code is the upper-cased code.
PartnersOfCode(code) ==
    {i \in DOMAIN users : /\ users[i].referralCode = toUpperCase(code)
                          /\ users[i].role = CHANNEL_PARTNER
                          /\ users[i].isActive}

\* C9 (as claimed): the lead of a successful public submission has status
\* new; its source is referral iff a referral code was submitted, else
\* website; it is assigned to the Agent record of the active channel partner
\* whose code is the upper-cased submitted one, and unassigned when no code
\* was submitted.
C9_LeadProvenanceAsClaimed ==
    (last.op = "lead" /\ last.status = 201)
    => LET lead == leads[last.leadId]
           submitted == last.reqCode # ABSENT
       IN /\ lead.status = "new"
          /\ lead.source = IF submitted THEN "referral" ELSE "website"
          /\ submitted =>
                \E i \in PartnersOfCode(last.reqCode) :
                    \E r \in ChannelPartnersByUser(i) :
                        lead.assignedChannelPartnerId = channelPartners[r].id
          /\ ~submitted => lead.assignedChannelPartnerId = NoId

\* C9 (amended): the lead has status new; its source is referral iff a
\* non-empty referral code was submitted, else website; with a non-empty
\* code there is an active channel partner whose code is the upper-cased
\* submitted one, and the lead is assigned to that partner's Agent record if
\* the partner has one and unassigned if not; without a code (absent or
\* empty) the lead is unassigned.
C9_LeadProvenance ==
    (last.op = "lead" /\ last.status = 201)
    => LET lead == leads[last.leadId]
           submitted == last.reqCode # ABSENT /\ last.reqCode # <<>>
       IN /\ lead.status = "new"
          /\ lead.source = IF submitted THEN "referral" ELSE "website"
          /\ submitted =>
                \E i \in PartnersOfCode(last.reqCode) :
                    IF ChannelPartnersByUser(i) = {}
                    THEN lead.assignedChannelPartnerId = NoId
                    ELSE \E r \in ChannelPartnersByUser(i) :
                            lead.assignedChannelPartnerId = channelPartners[r].id
          /\ ~submitted => lead.assignedChannelPartnerId = NoId

\* C9 witness: a code submitted in lower case produced a referral lead
\* assigned to the Agent record of the partner holding the upper-cased code.
C9_Witness ==
    /\ last.op = "lead"
    /\ last.status = 201
    /\ last.reqCode = jd100000
    /\ leads[last.leadId].source = "referral"
    /\ leads[last.leadId].assignedChannelPartnerId # NoId
    /\ users[channelPartners[leads[last.leadId].assignedChannelPartnerId].userId].referralCode
           = JD100000

\* C10 (as claimed): a submission whose referral code, upper-cased, matches
\* no active channel partner is answered 400 INVALID_REFERRAL_CODE and
\* inserts no lead.
C10_InvalidCodeRejectedAsClaimed ==
    [][(/\ last'.op = "lead"
        /\ last'.reqCode # ABSENT
        /\ PartnersOfCode(last'.reqCode) = {})
       => (/\ last'.status = 400
           /\ last'.code = "INVALID_REFERRAL_CODE"
           /\ leads' = leads)]_vars

\* C10 (amended): a submission whose non-empty referral code, upper-cased,
\* matches no user, or only a user that is inactive or not a channel
\* partner, is answered 400 INVALID_REFERRAL_CODE and inserts no lead.
C10_InvalidCodeRejected ==
    [][(/\ last'.op = "lead"
        /\ last'.reqCode # ABSENT
        /\ last'.reqCode # <<>>
        /\ PartnersOfCode(last'.reqCode) = {})
       => (/\ last'.status = 400
           /\ last'.code = "INVALID_REFERRAL_CODE"
           /\ leads' = leads)]_vars

\* C10 witness: the code of a deactivated partner was refused.
C10_Witness ==
    /\ last.op = "lead"
    /\ last.code = "INVALID_REFERRAL_CODE"
    /\ \E i \in DOMAIN users : /\ users[i].referralCode = toUpperCase(last.reqCode)
                               /\ ~users[i].isActive

\* The leads assigned to an Agent record of the user.
OwnLeads(user) ==
    {l \in DOMAIN leads :
        leads[l].assignedChannelPartnerId \in ChannelPartnersByUser(user)}

\* C11: for a caller with role channel_partner, GET /leads returns 200 with
\* exactly the leads whose assigned-agent reference is the caller's own
\* Agent record (no lead of another partner, no unassigned lead), and with
\* an empty list when the caller has no Agent record.
C11_PartnerSeesOwnLeads ==
    (/\ last.op = "leads"
     /\ last.next
     /\ users[last.callerId].role = CHANNEL_PARTNER)
    => (/\ last.status = 200
        /\ Range(last.leadIds) = OwnLeads(last.callerId)
        /\ Len(last.leadIds) = Cardinality(OwnLeads(last.callerId))
        /\ ChannelPartnersByUser(last.callerId) = {} => last.leadIds = <<>>)

\* A partner with an Agent record lists leads, gets some, and another lead
\* exists that is not in the list.
C11_Witness ==
    /\ last.op = "leads"
    /\ last.next
    /\ users[last.callerId].role = CHANNEL_PARTNER
    /\ ChannelPartnersByUser(last.callerId) # {}
    /\ last.leadIds # <<>>
    /\ \E l \in DOMAIN leads : l \notin Range(last.leadIds)

\* C12 (as claimed): GET /leads returns every lead when the caller's role
\* is admin or builder, and only then: for every other role the list holds
\* nothing but leads assigned to the caller's own Agent record.
C12_AllLeadsOnlyForAdminOrBuilder ==
    (last.op = "leads" /\ last.next)
    => IF users[last.callerId].role \in {"admin", "builder"}
       THEN last.leadIds = LeadIds(Reverse(leads))
       ELSE Range(last.leadIds) \subseteq OwnLeads(last.callerId)

\* C13 (as claimed): a caller with role channel_partner gets a lead from
\* GET /leads/:id only if the lead is assigned to the caller's own Agent
\* record.
C13_PartnerReadsOnlyOwnLead ==
    (/\ last.op = "lead"
     /\ last.next
     /\ last.status = 200
     /\ users[last.callerId].role = CHANNEL_PARTNER)
    => last.leadId \in OwnLeads(last.callerId)

\* C14: POST /logout returns 200 whether or not a refresh-token cookie is
\* present and whether or not a Session row matches it; a second logout in
\* a row (with the same cookie, or with none now that the first cleared
\* it) also returns 200 and leaves the session store as the first left it.
C14_LogoutIdempotent ==
    /\ [](\A t \in CookieChoices :
            /\ LogoutSessions(LogoutSessions(sessions, t), t) = LogoutSessions(sessions, t)
            /\ LogoutSessions(LogoutSessions(sessions, t), NoToken) = LogoutSessions(sessions, t))
    /\ [][last'.op = "logout"
            => (/\ last'.status = 200
                /\ last'.cleared = {"accessToken", "refreshToken"}
                /\ (last.op = "logout" /\ last'.reqCookie \in {last.reqCookie, NoToken})
                       => sessions' = sessions)]_vars

\* A logout with an issued refresh token has deleted its Session row while
\* another session remains.
C14_Witness ==
    /\ last.op = "logout"
    /\ last.status = 200
    /\ last.reqCookie \in jar
    /\ IsRefreshToken(last.reqCookie)
    /\ SessionsByToken(last.reqCookie) = {}
    /\ sessions # {}

\* C15: a login for a user whose active flag is false returns 403
\* ACCOUNT_DISABLED when the password is correct and 401
\* INVALID_CREDENTIALS when it is wrong; either way no Session row is
\* created, no cookie is set and last-login is unchanged.
C15_DisabledAccountLogin ==
    [][(/\ last'.op = "login"
        /\ \E i \in UsersByEmail(last'.reqEmail) : ~users[i].isActive)
       => (/\ \A i \in UsersByEmail(last'.reqEmail) :
                 IF verifyPassword(last'.reqPassword, users[i].passwordHash)
                 THEN last'.status = 403 /\ last'.code = "ACCOUNT_DISABLED"
                 ELSE last'.status = 401 /\ last'.code = "INVALID_CREDENTIALS"
           /\ sessions' = sessions
           /\ users' = users
           /\ jar' = jar
           /\ last'.setAccessToken = NoToken
           /\ last'.setRefreshToken = NoToken)]_vars

\* A deactivated user presented the right password and got 403.
C15_Witness ==
    /\ last.op = "login"
    /\ last.status = 403
    /\ last.code = "ACCOUNT_DISABLED"
    /\ \E i \in UsersByEmail(last.reqEmail) :
           /\ ~users[i].isActive
           /\ verifyPassword(last.reqPassword, users[i].passwordHash)

\* C16: POST /refresh checks in this order and stops at the first failure:
\* no cookie gives NO_REFRESH_TOKEN; a token that fails verification gives
\* INVALID_REFRESH_TOKEN; no Session row with that token gives
\* SESSION_NOT_FOUND; each with status 401, no new access token, no cookie
\* set and no change to storage.
C16_RefreshCheckOrder ==
    [][(/\ last'.op = "refresh"
        /\ \/ last'.reqCookie = NoToken
           \/ ~verifyRefreshToken(last'.reqCookie, now)
           \/ SessionsByToken(last'.reqCookie) = {})
       => (/\ last'.code = IF last'.reqCookie = NoToken
                           THEN "NO_REFRESH_TOKEN"
                           ELSE IF ~verifyRefreshToken(last'.reqCookie, now)
                           THEN "INVALID_REFRESH_TOKEN"
                           ELSE "SESSION_NOT_FOUND"
           /\ last'.status = 401
           /\ last'.accessToken = NoToken
           /\ last'.setAccessToken = NoToken
           /\ last'.setRefreshToken = NoToken
           /\ UNCHANGED <<users, channelPartners, sessions, leads, jar>>)]_vars

\* An issued refresh token that has expired and whose Session row a logout
\* deleted is answered INVALID_REFRESH_TOKEN: verification comes first.
C16_Witness ==
    /\ last.op = "refresh"
    /\ last.code = "INVALID_REFRESH_TOKEN"
    /\ last.reqCookie \in jar
    /\ IsRefreshToken(last.reqCookie)
    /\ SessionsByToken(last.reqCookie) = {}

\* C17: requireAuth runs the handler only if the accessToken cookie is
\* present, verifies, and names a User row that exists and is active at
\* request time; otherwise it answers 401 (UNAUTHORIZED for a missing
\* cookie or a missing or inactive user, INVALID_TOKEN for a failed
\* verification) and the handler does not run.
C17_RequireAuthGate ==
    last.op = "leads"
    => LET t == last.reqCookie
           verified == t # NoToken /\ verifyAccessToken(t, now)
           active == t.userId \in DOMAIN users /\ users[t.userId].isActive
       IN
       /\ last.next <=> (verified /\ active)
       /\ ~last.next
            => (/\ last.status = 401
                /\ last.code = IF t # NoToken /\ ~verified
                               THEN "INVALID_TOKEN" ELSE "UNAUTHORIZED"
                /\ last.leadIds = <<>>
                /\ last.callerId = NoId)

\* A user deactivated after the token was issued is rejected while the
\* token still verifies.
C17_Witness ==
    /\ last.op = "leads"
    /\ ~last.next
    /\ last.code = "UNAUTHORIZED"
    /\ last.reqCookie \in jar
    /\ verifyAccessToken(last.reqCookie, now)
    /\ ~users[last.reqCookie.userId].isActive

\* C19 (as claimed): requireAuth never accepts a request whose accessToken
\* cookie holds a token that was issued as a refresh token, and no issued
\* credential opens a protected route 15 minutes or more after its
\* issuance.
C19_RefreshTokenOnlyAtRefresh ==
    (last.op = "leads" /\ last.reqCookie \in jar)
    => (/\ IsRefreshToken(last.reqCookie) => ~last.next
        /\ last.next => now < last.reqCookie.iat + ACCESS_TOKEN_EXPIRY)

\* C18 (as claimed): after every successful password change no Session row
\* of that user remains, so a refresh with any refresh token issued to the
\* user before the change is answered SESSION_NOT_FOUND, whichever cookies
\* the request carried; sessions of other users are untouched.
C18_PasswordChangeInvalidatesSessions ==
    [][(last'.op = "password" /\ last'.status = 200)
       => (/\ \A s \in sessions' : s.userId # last'.callerId
           /\ \A t \in RefreshCookies :
                 (t.userId = last'.callerId /\ verifyRefreshToken(t, now'))
                 => RefreshResult(t)'.code = "SESSION_NOT_FOUND"
           /\ {s \in sessions' : s.userId # last'.callerId}
                 = {s \in sessions : s.userId # last'.callerId})]_vars

\* C20: in every reachable state, after any interleaving of signup and
\* profile-update requests, no two User rows have the same email and no
\* two User rows have the same non-null referral code.
C20_EmailAndReferralCodeUnique ==
    \A i, j \in DOMAIN users :
        i # j => (/\ users[i].email # users[j].email
                  /\ users[i].referralCode # NULL
                        => users[i].referralCode # users[j].referralCode)

\* A profile update passed its email check, lost the race to a request
\* that took the email first, and was stopped by the constraint.
C20_Witness ==
    /\ last.op = "profile"
    /\ last.status = 500
    /\ last.code = "UPDATE_ERROR"
    /\ Len(users) >= 2

\* 0 to 3 upper-case letters A-Z followed by exactly 6 decimal digits.
ReferralCodeFormat(code) ==
    \E k \in 0..MAX_INITIALS :
        /\ Len(code) = k + 6
        /\ \A i \in 1..k : code[i] \in Range(UpperCase)
        /\ \A i \in (k + 1)..(k + 6) : code[i] \in Range(DigitChars)

\* C21 (as claimed): for every full name the signup schema accepts, the
\* referral code generated for it is 0 to 3 upper-case letters A-Z
\* followed by exactly 6 decimal digits.
C21_ReferralCodeFormat ==
    \A i \in DOMAIN users :
        users[i].referralCode # NULL => ReferralCodeFormat(users[i].referralCode)

C23_ProfileEmailCheck ==
    [][(/\ last'.op = "profile"
        /\ last'.next
        /\ last'.code \notin {"IN_FLIGHT", "ZodError"})
       => IF /\ last'.reqEmail # NoEmail
             /\ last'.reqEmail # users[last'.callerId].email
             /\ UsersByEmail(last'.reqEmail) # {}
          THEN /\ last'.status = 400
               /\ last'.code = "EMAIL_EXISTS"
               /\ users' = users
          ELSE /\ last'.status = 200
               /\ DOMAIN users' = DOMAIN users
               /\ \A i \in DOMAIN users :
                     users'[i] = IF i = last'.callerId
                                 THEN [users[i] EXCEPT !.email = users'[i].email,
                                                       !.fullName = users'[i].fullName]
                                 ELSE users[i]]_vars

\* C24: a successful POST /refresh only issues a new access token and sets
\* the access-token cookie: no row is written, the Session row and the
\* refresh token stay, no refresh-token cookie is set, and the same refresh
\* token refreshes again after it; a token that refreshes keeps doing so
\* across every step that is not a logout, a password change or an
\* advance of the clock.
C24_RefreshLeavesSessionAlone ==
    /\ [][(last'.op = "refresh" /\ last'.status = 200)
           => (/\ UNCHANGED <<users, channelPartners, sessions, leads>>
               /\ last'.setRefreshToken = NoToken
               /\ last'.cleared = {}
               /\ IsAccessToken(last'.accessToken)
               /\ last'.setAccessToken = last'.accessToken
               /\ last'.accessToken.userId = last'.reqCookie.userId
               /\ jar' = jar \cup {last'.accessToken}
               /\ \E s \in sessions :
                     s.token = last'.reqCookie /\ RefreshResult(s.token)'.status = 200)]_vars
    /\ [][last'.op \notin {"logout", "password", "tick"}
           => \A s \in sessions :
                 RefreshResult(s.token).status = 200
                 => RefreshResult(s.token)'.status = 200]_vars

\* A refresh succeeded some time after the session began and the Session
\* row of its token is still there.
C24_Witness ==
    /\ last.op = "refresh"
    /\ last.status = 200
    /\ last.accessToken.iat > last.reqCookie.iat
    /\ SessionsByToken(last.reqCookie) # {}

\* C25 (as claimed): whenever a signup request ends with an error response,
\* no User, Agent or Session row written by that request remains in
\* storage.
C25_SignupAllOrNothing ==
    [][\A p \in Procs :
          (/\ pending[p].pc \in {"insertUser", "insertAgent", "createSession"}
           /\ pending'[p].pc = "idle"
           /\ last'.op = "signup"
           /\ last'.status >= 400)
          => (/\ \A i \in DOMAIN users' :
                    i = pending[p].userId \/ users'[i].email = pending[p].email
                    => i \in DOMAIN users /\ i # pending[p].userId
              /\ ChannelPartnersByUser(pending[p].userId)' = {}
              /\ \A s \in sessions' : s.userId # pending[p].userId)]_vars

\* C26: every Session row is created with expiresAt equal to its creation
\* time plus 7 days, and POST /refresh never returns 200 for a refresh
\* token whose Session row has an expiresAt earlier than the current time.
C26_ExpiredSessionNeverRefreshes ==
    /\ \A s \in sessions :
          /\ s.expiresAt = s.createdAt + SESSION_LIFETIME
          /\ s.expiresAt < now => RefreshResult(s.token).status # 200
    /\ (last.op = "refresh" /\ last.status = 200)
          => \A s \in SessionsByToken(last.reqCookie) : s.expiresAt >= now

\* A refresh was attempted with the token of a Session row that is past
\* its expiresAt, and was refused.
C26_Witness ==
    /\ last.op = "refresh"
    /\ last.status = 401
    /\ \E s \in SessionsByToken(last.reqCookie) : s.expiresAt < now

\* C27: the referral-code loop always ends, after at most 5 lookups and at
\* most 5 regenerations; it stops at the first code that is not in storage;
\* when all 5 checked codes collide the signup goes on to insert the user
\* with the last generated code, and an insert whose code (or email) is
\* taken fails with 500 SIGNUP_ERROR and writes no row.
C27_ReferralLoopBounded ==
    /\ [](\A n \in RandomInts :
            LET first == generateReferralCode(JohnDoe, n)
                runs == ReferralLoopRuns(JohnDoe, first, 0, 0, RandomInts)
            IN
            /\ runs # {}
            /\ {r.code : r \in runs} = ReferralLoop(JohnDoe, first, 0, RandomInts)
            /\ \A r \in runs :
                  /\ r.lookups <= MAX_ATTEMPTS
                  /\ r.attempts <= MAX_ATTEMPTS
                  /\ r.attempts < MAX_ATTEMPTS
                        => (/\ UsersByReferralCode(r.code) = {}
                            /\ r.lookups = r.attempts + 1)
                  /\ r.attempts = MAX_ATTEMPTS => r.lookups = MAX_ATTEMPTS
            /\ UsersByReferralCode(first) = {}
                  => runs = {[code |-> first, attempts |-> 0, lookups |-> 1]})
    /\ [][\A p \in Procs :
             (/\ pending[p].pc = "insertUser"
              /\ pending'[p].pc # "insertUser")
             => IF \/ UsersByEmail(pending[p].email) # {}
                   \/ /\ pending[p].referralCode # NULL
                      /\ UsersByReferralCode(pending[p].referralCode) # {}
                THEN /\ last'.status = 500
                     /\ last'.code = "SIGNUP_ERROR"
                     /\ users' = users
                     /\ pending'[p].pc = "idle"
                ELSE /\ Len(users') = Len(users) + 1
                     /\ users'[Len(users')].referralCode = pending[p].referralCode]_vars

\* A signup whose email is free was refused with SIGNUP_ERROR: with one
\* request at a time, its loop met a taken code at each of its 5 lookups
\* and the code it generated last was taken too.
C27_Witness ==
    /\ last.op = "signup"
    /\ last.code = "SIGNUP_ERROR"
    /\ UsersByEmail(last.reqEmail) = {}
    /\ \E n \in RandomInts :
          \E r \in ReferralLoopRuns(JohnDoe, generateReferralCode(JohnDoe, n), 0, 0, RandomInts) :
              r.attempts = MAX_ATTEMPTS /\ UsersByReferralCode(r.code) # {}

\* C28: after every signup that returned 201 the new user has a non-null
\* referral code and exactly one Agent record, of status active, if its
\* role is channel_partner (given or by default), and a null referral code
\* and no Agent record if its role is admin, builder or customer; no user
\* ever has more than one Agent record.
C28_PartnerHasCodeAndAgent ==
    /\ \A i \in DOMAIN users : Cardinality(ChannelPartnersByUser(i)) <= 1
    /\ (last.op = "signup" /\ last.status = 201)
          => LET newUser == users[last.userId]
             IN
             /\ newUser.role = IF last.reqRole = NoRole THEN CHANNEL_PARTNER
                                ELSE last.reqRole
             /\ IF newUser.role = CHANNEL_PARTNER
                THEN /\ newUser.referralCode # NULL
                     /\ Cardinality(ChannelPartnersByUser(newUser.id)) = 1
                     /\ \A r \in ChannelPartnersByUser(newUser.id) :
                           channelPartners[r].status = "active"
                ELSE /\ newUser.role \in {"admin", "builder", "customer"}
                     /\ newUser.referralCode = NULL
                     /\ ChannelPartnersByUser(newUser.id) = {}

\* A signup without a role returned 201 after an account of another role
\* had signed up.
C28_Witness ==
    /\ last.op = "signup"
    /\ last.status = 201
    /\ last.reqRole = NoRole
    /\ ChannelPartnersByUser(last.userId) # {}
    /\ \E i \in DOMAIN users : users[i].role # CHANNEL_PARTNER

\* C29 (as claimed): change password checks the current password before
\* the strength of the new one: a wrong current password gives 400
\* INVALID_PASSWORD even when the new password is also weak, and a correct
\* current password with a weak new password gives 400 WEAK_PASSWORD; in
\* both cases the stored hash and every Session row are unchanged.
C29_CurrentPasswordCheckedFirst ==
    [][(last'.op = "password" /\ last'.next)
       => LET wrong == ~verifyPassword(last'.reqPassword,
                                       users[last'.callerId].passwordHash)
              weakNew == ~validatePasswordStrength(last'.reqNewPassword).valid
          IN
          /\ wrong => (/\ last'.status = 400
                       /\ last'.code = "INVALID_PASSWORD"
                       /\ users' = users
                       /\ sessions' = sessions)
          /\ (~wrong /\ weakNew) => (/\ last'.status = 400
                                     /\ last'.code = "WEAK_PASSWORD"
                                     /\ users' = users
                                     /\ sessions' = sessions)]_vars

\* C30 (as claimed): right after a successful password change a login with
\* the old password returns INVALID_CREDENTIALS and a login with the new
\* password succeeds; right after a failed password change a login with
\* the (correct) old password still succeeds.
C30_LoginFollowsPasswordChange ==
    [][(/\ last.op = "password"
        /\ last.next
        /\ last'.op = "login"
        /\ last'.reqEmail = users[last.callerId].email
        /\ users[last.callerId].isActive)
       => IF last.status = 200
          THEN /\ last'.reqPassword = last.reqNewPassword => last'.status = 200
               /\ (/\ last'.reqPassword = last.reqPassword
                   /\ last.reqPassword # last.reqNewPassword)
                     => last'.code = "INVALID_CREDENTIALS"
          ELSE (/\ last.code = "WEAK_PASSWORD"
                /\ last'.reqPassword = last.reqPassword)
                  => last'.status = 200]_vars

\* C31: the identity returned by GET /session and the identity attached by
\* requireAuth are read from the User row at request time: a request with a
\* verified access token sees the row's current email and role whatever the
\* token's claims say, and GET /session answers 404 USER_NOT_FOUND once the
\* row is gone.
C31_IdentityReadFromStorage ==
    [][/\ (last'.op = "session" /\ verifyRefreshToken(last'.reqCookie, now'))
          => IF last'.reqCookie.userId \in DOMAIN users'
             THEN /\ last'.status = 200
                  /\ last'.userEmail = users'[last'.reqCookie.userId].email
                  /\ last'.userRole = users'[last'.reqCookie.userId].role
             ELSE last'.status = 404 /\ last'.code = "USER_NOT_FOUND"
       /\ (last'.op = "leads" /\ last'.next)
          => /\ last'.reqCookie.userId \in DOMAIN users'
             /\ last'.callerId = last'.reqCookie.userId
             /\ last'.callerEmail = users'[last'.callerId].email
             /\ last'.callerRole = users'[last'.callerId].role]_vars

\* GET /session answered with an email and a role that both differ from the
\* claims of the token it was called with.
C31_Witness ==
    /\ last.op = "session"
    /\ last.status = 200
    /\ last.userEmail # last.reqCookie.email
    /\ last.userRole # last.reqCookie.role

\* C32: logout deletes only the Session row whose token equals the
\* refresh-token cookie of the request: it adds no row, every other session
\* (of the same user and of other users) is unchanged, and a refresh token
\* of another session that refreshed before the logout refreshes after it.
C32_LogoutDeletesOnlyItsSession ==
    [][last'.op = "logout"
       => /\ sessions' \subseteq sessions
          /\ \A s \in sessions :
                s.token # last'.reqCookie
                  => /\ s \in sessions'
                     /\ RefreshResult(s.token).status = 200
                          => RefreshResult(s.token)'.status = 200]_vars

\* A logout removed one session of a user who has another one, which was
\* left in place and still refreshes.
C32_Witness ==
    /\ last.op = "logout"
    /\ last.reqCookie \in RefreshCookies
    /\ SessionsByToken(last.reqCookie) = {}
    /\ \E s \in sessions :
          /\ s.userId = last.reqCookie.userId
          /\ RefreshResult(s.token).status = 200

C34_LeadStatusFreeAndAudited ==
    [][(last'.op = "updateLead" /\ last'.next /\ last'.leadId \in DOMAIN leads)
       => LET body == last'.reqBody
              id == last'.leadId
          IN
          /\ body.status \in LeadStatuses
               => last'.status = 200 /\ leads'[id].status = body.status
          /\ body.status \notin LeadStatuses \cup {NoStatus}
               => /\ last'.status = 400
                  /\ leads' = leads
                  /\ activities' = activities
          /\ \/ activities' = activities
             \/ /\ Len(activities') = Len(activities) + 1
                /\ SubSeq(activities', 1, Len(activities)) = activities
                /\ activities'[Len(activities')].entityId = id
          /\ activities' # activities
               <=> \/ leads'[id].status # leads[id].status
                   \/ leads'[id].notes # leads[id].notes]_vars

\* C35 (as claimed): every follow-up create and update request that returns
\* a success response appends exactly one Activity record whose entity is
\* the follow-up's lead and whose user is the caller; a request that fails
\* appends none and writes no follow-up.
C35_FollowUpAudited ==
    [][last'.op \in {"createFollowUp", "updateFollowUp"}
       => IF last'.status \in {200, 201}
          THEN /\ Len(activities') = Len(activities) + 1
               /\ SubSeq(activities', 1, Len(activities)) = activities
               /\ last'.followUpId \in DOMAIN followUps'
               /\ LET activity == activities'[Len(activities')]
                  IN /\ activity.entityType = "lead"
                     /\ activity.entityId = followUps'[last'.followUpId].leadId
                     /\ activity.userId = last'.callerId
          ELSE activities' = activities /\ followUps' = followUps]_vars

\* C36 (as claimed): in every reachable state a follow-up has a completedAt
\* timestamp if and only if its status is completed.
C36_CompletedAtIffCompleted ==
    \A i \in DOMAIN followUps :
        followUps[i].completedAt # NoTime <=> followUps[i].status = "completed"

\* C37: logout and password change revoke only the refresh path: an
\* access token that requireAuth or GET /session accepted before a logout
\* or a successful password change is accepted after it, and in every state
\* an unexpired access token of an active user is accepted by both whatever
\* the session store holds.
C37_AccessTokenOutlivesRevocation ==
    /\ [](\A t \in AccessCookies :
            (/\ verifyAccessToken(t, now)
             /\ t.userId \in DOMAIN users
             /\ users[t.userId].isActive)
              => requireAuth(t).next /\ SessionResult(t).status = 200)
    /\ [][(\/ last'.op = "logout"
           \/ last'.op = "password" /\ last'.status = 200)
          => \A t \in AccessCookies :
                /\ requireAuth(t).next => requireAuth(t)'.next
                /\ SessionResult(t).status = 200
                     => SessionResult(t)'.status = 200]_vars

\* GET /session answered 200 for the access token of a user none of whose
\* sessions is left.
C37_Witness ==
    /\ last.op = "session"
    /\ last.status = 200
    /\ \A s \in sessions : s.userId # last.userId

====
